---- MODULE Spec2Model ----
(***************************************************************************)
(* Model of the attestation codec of sage-template: the probability ->     *)
(* sqrtPriceX96 computation of buildAttestationCalldata (src/utils/eas.ts), *)
(* its inverse AttestationService.decodeProbability, the calldata builder   *)
(* and the re-attestation filter (src/services/attestationService.ts).      *)
(*                                                                          *)
(* JavaScript numbers are IEEE-754 doubles and the code mixes them with     *)
(* BigInt arithmetic on values up to 2^160.  TLC's integers are 32 bits     *)
(* wide, so both are modelled exactly on top of a small arbitrary-precision *)
(* natural-number library: a BigInt is a little-endian sequence of limbs in *)
(* base 2^15, a double is sign, 53-bit mantissa and exponent, and every     *)
(* double operation is the exact operation followed by round-to-nearest,    *)
(* ties-to-even.                                                            *)
(***************************************************************************)
EXTENDS Integers, Sequences, FiniteSets, TLC


\* ------------------------------------------------------------------------
\* Arbitrary-precision naturals (the magnitude of a JavaScript BigInt)
\* ------------------------------------------------------------------------

LimbBits == 15 + 0
Base == 2 ^ LimbBits

Max2(x, y) == IF x >= y THEN x ELSE y
Min2(x, y) == IF x <= y THEN x ELSE y

Limb(a, i) == IF 1 <= i /\ i <= Len(a) THEN a[i] ELSE 0

\* the greatest element of a non-empty finite set of integers
MaxOf(S) == CHOOSE i \in S : \A j \in S : j <= i

\* the index of the most significant non-zero limb of a, 0 when there is none
TopLimb(a) == MaxOf({0} \cup {i \in 1..Len(a) : a[i] # 0})

\* a without its leading zero limbs
Trim(a) == SubSeq(a, 1, TopLimb(a))

BigOfSmall(n) == Trim(<<n % Base, n \div Base>>)

\* -1, 0, 1 as a < b, a = b, a > b on the most significant differing limb
CmpLimbs(a, b, df) ==
  IF df = {} THEN 0 ELSE IF a[MaxOf(df)] < b[MaxOf(df)] THEN -1 ELSE 1

\* -1, 0, 1 as a < b, a = b, a > b (both trimmed)
BigCmp(a, b) ==
  IF Len(a) < Len(b) THEN -1
  ELSE IF Len(a) > Len(b) THEN 1
  ELSE CmpLimbs(a, b, {i \in 1..Len(a) : a[i] # b[i]})

BigLe(a, b) == BigCmp(a, b) <= 0
BigLt(a, b) == BigCmp(a, b) < 0

\* limb i of the limb sums s receives a carry iff some lower sum overflows
\* and every sum between them is Base - 1
CarryInto(s, i) ==
  IF \E j \in 1..(i - 1) : s[j] >= Base /\ \A k \in (j + 1)..(i - 1) : s[k] = Base - 1
  THEN 1 ELSE 0

AddLimbs(s) == Trim([i \in 1..Len(s) |-> (s[i] + CarryInto(s, i)) % Base])

\* a + b
BigAdd(a, b) ==
  AddLimbs(<<>> \o [i \in 1..(Max2(Len(a), Len(b)) + 1) |-> Limb(a, i) + Limb(b, i)])

\* limb i of the limb differences d lends iff some lower difference is
\* negative and every difference between them is 0
BorrowFrom(d, i) ==
  IF \E j \in 1..(i - 1) : d[j] < 0 /\ \A k \in (j + 1)..(i - 1) : d[k] = 0
  THEN 1 ELSE 0

SubLimbs(d) == Trim([i \in 1..Len(d) |-> (d[i] - BorrowFrom(d, i)) % Base])

\* a - b for a >= b
BigSub(a, b) == SubLimbs(<<>> \o [i \in 1..Len(a) |-> a[i] - Limb(b, i)])

\* a * k for 0 <= k < Base
MulSmall(a, k) ==
  BigAdd([i \in 1..Len(a) |-> (a[i] * k) % Base],
         <<0>> \o [i \in 1..Len(a) |-> (a[i] * k) \div Base])

\* rest * Base + a * b[i], rest being the product of a and the limbs above i
MulAcc(a, k, rest) ==
  IF rest = <<>> THEN MulSmall(a, k) ELSE BigAdd(MulSmall(a, k), <<0>> \o rest)

RECURSIVE MulFrom(_, _, _)
MulFrom(a, b, i) ==
  IF i > Len(b) THEN <<>> ELSE MulAcc(a, b[i], MulFrom(a, b, i + 1))

\* a * b, summing one partial product for each limb of the shorter factor
BigMul(a, b) ==
  IF a = <<>> \/ b = <<>> THEN <<>>
  ELSE IF Len(a) >= Len(b) THEN MulFrom(a, b, 1) ELSE MulFrom(b, a, 1)

Zeros(n) == [i \in 1..n |-> 0]

\* a * t for a power of two t <= Base, limb by limb
ShiftLimbs(a, t) ==
  Trim([i \in 1..(Len(a) + 1) |-> ((Limb(a, i) * t) % Base) + ((Limb(a, i - 1) * t) \div Base)])

\* a * 2^n
ShiftLeft(a, n) ==
  IF a = <<>> THEN <<>>
  ELSE Zeros(n \div LimbBits) \o ShiftLimbs(a, 2 ^ (n % LimbBits))

\* floor(a / (Base^w * t)) for a power of two t < Base
DropLimbs(a, w, t) ==
  IF w >= Len(a) THEN <<>>
  ELSE Trim([i \in 1..(Len(a) - w) |->
               (Limb(a, i + w) \div t) + ((Limb(a, i + w + 1) % t) * (Base \div t))])

\* floor(a / 2^n)
ShiftRight(a, n) == DropLimbs(a, n \div LimbBits, 2 ^ (n % LimbBits))

Pow2(n) == ShiftLeft(<<1>>, n)

\* the number of bits of x, 0 <= x < Base
SmallBits(x) == IF x = 0 THEN 0 ELSE CHOOSE k \in 1..LimbBits : 2 ^ (k - 1) <= x /\ x < 2 ^ k

BitLength(a) == IF a = <<>> THEN 0 ELSE (Len(a) - 1) * LimbBits + SmallBits(a[Len(a)])

IsOdd(a) == a # <<>> /\ a[1] % 2 = 1

\* a mod 2^n is zero
LowBitsZero(a, n) == \A i \in 1..Len(a) : (i - 1) * LimbBits >= n \/ 
                        a[i] % (2 ^ Min2(LimbBits, n - (i - 1) * LimbBits)) = 0

\* a mod 2^n
LowBits(a, n) == BigSub(a, ShiftLeft(ShiftRight(a, n), n))

\* 2 * q + b for a bit b
PushBit(q, b) == IF q = <<>> THEN BigOfSmall(b) ELSE [ShiftLeft(q, 1) EXCEPT ![1] = @ + b]

\* One step of binary long division: st.d = b * 2^st.i is compared with the
\* remainder st.r and the quotient st.q gains the bit take.
DivTake(st, take) ==
  [r |-> IF take THEN BigSub(st.r, st.d) ELSE st.r,
   d |-> ShiftRight(st.d, 1),
   i |-> st.i - 1,
   q |-> PushBit(st.q, IF take THEN 1 ELSE 0)]

\* A finished state (st.i < 0) is left as it is.
DivStep(st) == IF st.i < 0 THEN st ELSE DivTake(st, BigLe(st.d, st.r))

DivStep4(st) == DivStep(DivStep(DivStep(DivStep(st))))

RECURSIVE DivLoop(_)
DivLoop(st) == IF st.i < 0 THEN st ELSE DivLoop(DivStep4(st))

\* long division of a by b > 0 over n + 1 quotient bits
DivFrom(a, b, n) ==
  IF n < 0 THEN [r |-> a, d |-> b, i |-> -1, q |-> <<>>]
  ELSE DivLoop([r |-> a, d |-> ShiftLeft(b, n), i |-> n, q |-> <<>>])

\* quotient .q and remainder .r of a / b for b > 0
BigDivMod(a, b) == DivFrom(a, b, BitLength(a) - BitLength(b))

\* floor(a / b) for b > 0
BigDiv(a, b) == BigDivMod(a, b).q

\* One step of the digit-by-digit integer square root; t = st.res + st.bit.
SqrtTake(st, t, take) ==
  [num |-> IF take THEN BigSub(st.num, t) ELSE st.num,
   res |-> IF take THEN BigAdd(ShiftRight(st.res, 1), st.bit) ELSE ShiftRight(st.res, 1),
   bit |-> ShiftRight(st.bit, 2)]

SqrtTry(st, t) == SqrtTake(st, t, BigLe(t, st.num))

SqrtStep(st) == IF st.bit = <<>> THEN st ELSE SqrtTry(st, BigAdd(st.res, st.bit))

SqrtStep4(st) == SqrtStep(SqrtStep(SqrtStep(SqrtStep(st))))

RECURSIVE SqrtLoop(_)
SqrtLoop(st) == IF st.bit = <<>> THEN st ELSE SqrtLoop(SqrtStep4(st))

\* floor(sqrt(a)) as .res and the remainder a - res^2 as .num
BigSqrt(a) ==
  IF a = <<>> THEN [num |-> <<>>, res |-> <<>>, bit |-> <<>>]
  ELSE SqrtLoop([num |-> a, res |-> <<>>, bit |-> Pow2(((BitLength(a) - 1) \div 2) * 2)])

RECURSIVE FromDigits(_, _, _)
FromDigits(ds, i, acc) ==
  IF i > Len(ds) \/ Len(acc) < 0 THEN acc
  ELSE FromDigits(ds, i + 1, BigAdd(MulSmall(acc, 10), BigOfSmall(ds[i])))

\* the natural number written by the decimal digits ds, most significant first
BigOfDecimal(ds) == FromDigits(ds, 1, <<>>)

TimesTen(p) == IF p = <<>> THEN <<>> ELSE MulSmall(p, 10)

RECURSIVE Pow10(_)
Pow10(n) == IF n = 0 THEN <<1>> ELSE TimesTen(Pow10(n - 1))

\* ------------------------------------------------------------------------
\* JavaScript BigInt: a sign and a magnitude (zero is never negative)
\* ------------------------------------------------------------------------

SBig(neg, mag) == [neg |-> neg /\ mag # <<>>, mag |-> mag]

SMul(a, b) == SBig(a.neg # b.neg, BigMul(a.mag, b.mag))

\* BigInt division truncates toward zero
SDiv(a, b) == SBig(a.neg # b.neg, BigDiv(a.mag, b.mag))

\* ------------------------------------------------------------------------
\* JavaScript Number: an IEEE-754 double.  A finite double is
\* (-1)^s * m * 2^e with m = 0 or 2^52 <= m < 2^53; results at or above
\* 2^1024 overflow to Infinity.  Subnormals (below 2^-1022) are not reached
\* by the inputs used here and are not modelled.
\* ------------------------------------------------------------------------

NaN == [k |-> "nan", s |-> 0, m |-> <<>>, e |-> 0]
Infinity(s) == [k |-> "inf", s |-> s, m |-> <<>>, e |-> 0]
DZero(s) == [k |-> "fin", s |-> s, m |-> <<>>, e |-> 0]
Fin(s, m, e) == IF e + 52 > 1023 THEN Infinity(s) ELSE [k |-> "fin", s |-> s, m |-> m, e |-> e]

IsZero(x) == x.k = "fin" /\ x.m = <<>>
SignXor(x, y) == (x.s + y.s) % 2

\* q * 2^e with q < 2^54 brought back to 53 bits after a round-up
Renorm(s, q, e) ==
  IF BitLength(q) > 53 THEN Fin(s, ShiftRight(q, 1), e + 1) ELSE Fin(s, q, e)

\* q is the kept part; c compares the dropped part with one half
RoundUp(s, q, e, c) ==
  IF c > 0 \/ (c = 0 /\ IsOdd(q)) THEN Renorm(s, BigAdd(q, <<1>>), e) ELSE Fin(s, q, e)

\* M has bl bits
RoundBits(s, M, e, bl) ==
  IF bl <= 53 THEN Fin(s, ShiftLeft(M, 53 - bl), e - (53 - bl))
  ELSE RoundUp(s, ShiftRight(M, bl - 53), e + (bl - 53),
               BigCmp(LowBits(M, bl - 53), Pow2(bl - 54)))

\* the double nearest to (-1)^s * M * 2^e, ties to even
RoundNE(s, M, e) == IF M = <<>> THEN DZero(s) ELSE RoundBits(s, M, e, BitLength(M))

\* rounds a quotient .q whose remainder .r stands for a sticky bit
RoundSticky(s, qr, e) == RoundNE(s, PushBit(qr.q, IF qr.r = <<>> THEN 0 ELSE 1), e - 1)

\* N * 2^sh / D has at least 56 quotient bits
RoundShifted(s, N, D, e, sh) == RoundSticky(s, BigDivMod(ShiftLeft(N, sh), D), e - sh)

\* the double nearest to (-1)^s * (N / D) * 2^e for D > 0
RoundRatio(s, N, D, e) ==
  IF N = <<>> THEN DZero(s)
  ELSE RoundShifted(s, N, D, e, Max2(0, 57 + BitLength(D) - BitLength(N)))

\* x / y
FDiv(x, y) ==
  IF x.k = "nan" \/ y.k = "nan" THEN NaN
  ELSE IF x.k = "inf" THEN IF y.k = "inf" THEN NaN ELSE Infinity(SignXor(x, y))
  ELSE IF y.k = "inf" THEN DZero(SignXor(x, y))
  ELSE IF IsZero(y) THEN IF IsZero(x) THEN NaN ELSE Infinity(SignXor(x, y))
  ELSE RoundRatio(SignXor(x, y), x.m, y.m, x.e - y.e)

\* x * y
FMul(x, y) ==
  IF x.k = "nan" \/ y.k = "nan" THEN NaN
  ELSE IF x.k = "inf" \/ y.k = "inf"
       THEN IF IsZero(x) \/ IsZero(y) THEN NaN ELSE Infinity(SignXor(x, y))
  ELSE RoundNE(SignXor(x, y), BigMul(x.m, y.m), x.e + y.e)

\* rounds the integer square root .res with remainder .num as a sticky bit
RoundRoot(sq, e) == RoundNE(0, PushBit(sq.res, IF sq.num = <<>> THEN 0 ELSE 1), e)

\* sqrt(m * 2^e) for even e
SqrtEven(m, e) == RoundRoot(BigSqrt(ShiftLeft(m, 58)), (e - 58) \div 2 - 1)

\* Math.sqrt(x)
FSqrt(x) ==
  IF x.k = "nan" THEN NaN
  ELSE IF IsZero(x) THEN x
  ELSE IF x.s = 1 THEN NaN
  ELSE IF x.k = "inf" THEN x
  ELSE IF x.e % 2 = 1 THEN SqrtEven(ShiftLeft(x.m, 1), x.e - 1)
  ELSE SqrtEven(x.m, x.e)

\* X * 2^e - Y * 2^e for the sign s of X
SubAligned(s, X, Y, e) ==
  IF BigLe(Y, X) THEN RoundNE(IF X = Y THEN 0 ELSE s, BigSub(X, Y), e)
  ELSE RoundNE(1 - s, BigSub(Y, X), e)

\* x - y for non-zero finite x, y with the common exponent e
SubFinite(x, y, e) ==
  IF x.s # y.s THEN RoundNE(x.s, BigAdd(ShiftLeft(x.m, x.e - e), ShiftLeft(y.m, y.e - e)), e)
  ELSE SubAligned(x.s, ShiftLeft(x.m, x.e - e), ShiftLeft(y.m, y.e - e), e)

\* x - y
FSub(x, y) ==
  IF x.k = "nan" \/ y.k = "nan" THEN NaN
  ELSE IF x.k = "inf" THEN IF y.k = "inf" /\ y.s = x.s THEN NaN ELSE x
  ELSE IF y.k = "inf" THEN Infinity(1 - y.s)
  ELSE IF IsZero(y) THEN IF IsZero(x) THEN DZero(IF x.s = 1 /\ y.s = 0 THEN 1 ELSE 0) ELSE x
  ELSE IF IsZero(x) THEN [y EXCEPT !.s = 1 - y.s]
  ELSE SubFinite(x, y, Min2(x.e, y.e))

\* Math.abs(x)
FAbs(x) == IF x.k = "nan" THEN x ELSE [x EXCEPT !.s = 0]

\* -1, 0, 1 as |x| < |y|, |x| = |y|, |x| > |y| for finite x, y
MagCmp(x, y) ==
  IF IsZero(x) THEN IF IsZero(y) THEN 0 ELSE -1
  ELSE IF IsZero(y) THEN 1
  ELSE IF x.e < y.e THEN -1
  ELSE IF x.e > y.e THEN 1
  ELSE BigCmp(x.m, y.m)

\* -1, 0, 1 as x < y, x = y, x > y for doubles other than NaN
DCmp(x, y) ==
  IF x.k = "inf" THEN IF y.k = "inf" /\ y.s = x.s THEN 0 ELSE IF x.s = 1 THEN -1 ELSE 1
  ELSE IF y.k = "inf" THEN IF y.s = 1 THEN 1 ELSE -1
  ELSE IF IsZero(x) /\ IsZero(y) THEN 0
  ELSE IF x.s # y.s THEN IF IsZero(x) THEN (IF y.s = 1 THEN 1 ELSE -1)
                         ELSE IF x.s = 1 THEN -1 ELSE 1
  ELSE IF x.s = 0 THEN MagCmp(x, y) ELSE MagCmp(y, x)

\* the JavaScript comparisons: false when an operand is NaN
FGe(x, y) == x.k # "nan" /\ y.k # "nan" /\ DCmp(x, y) >= 0
FGt(x, y) == x.k # "nan" /\ y.k # "nan" /\ DCmp(x, y) > 0
FLt(x, y) == x.k # "nan" /\ y.k # "nan" /\ DCmp(x, y) < 0

\* Math.min(x, y), Math.max(x, y): NaN when an operand is NaN
FMin(x, y) == IF x.k = "nan" \/ y.k = "nan" THEN NaN ELSE IF DCmp(x, y) <= 0 THEN x ELSE y
FMax(x, y) == IF x.k = "nan" \/ y.k = "nan" THEN NaN ELSE IF DCmp(x, y) >= 0 THEN x ELSE y

\* x has no fractional part
IsInteger(x) == x.k = "fin" /\ (IsZero(x) \/ x.e >= 0 \/ LowBitsZero(x.m, 0 - x.e))

\* the integer q, or q + 1 when a fraction was dropped from a negative number
FloorOf(s, q, frac) ==
  IF s = 1 /\ frac THEN RoundNE(1, BigAdd(q, <<1>>), 0) ELSE RoundNE(s, q, 0)

\* Math.floor(x)
FFloor(x) ==
  IF IsInteger(x) \/ x.k # "fin" THEN x
  ELSE FloorOf(x.s, ShiftRight(x.m, 0 - x.e), TRUE)

\* BigInt(x) for an integral double x
BigIntOfNumber(x) ==
  IF IsZero(x) THEN SBig(FALSE, <<>>)
  ELSE IF x.e >= 0 THEN SBig(x.s = 1, ShiftLeft(x.m, x.e))
  ELSE SBig(x.s = 1, ShiftRight(x.m, 0 - x.e))

\* Number(b) for a BigInt b
NumberOfBigInt(b) == RoundNE(IF b.neg THEN 1 ELSE 0, b.mag, 0)

\* the double a decimal literal denotes: (-1)^neg * num / 10^scale
NumberOfDecimal(neg, num, scale) == RoundRatio(IF neg THEN 1 ELSE 0, num, Pow10(scale), 0)


\* ------------------------------------------------------------------------
\* The probability codec
\* ------------------------------------------------------------------------

\* the number literals of the code
Hundred == NumberOfDecimal(FALSE, <<100>>, 0)
TenPow18 == NumberOfDecimal(FALSE, Pow10(18), 0)
DoubleZero == DZero(0)

\* the constant with its last digit mistyped
Q96_Mistyped == SBig(FALSE, BigOfDecimal(<<7,9,2,2,8,1,6,2,5,1,4,2,6,4,3,3,7,5,9,3,5,4,3,9,5,0,3,3,5>>))

\* BigInt('79228162514264337593543950336')
Q96 == SBig(FALSE, BigOfDecimal(<<7,9,2,2,8,1,6,2,5,1,4,2,6,4,3,3,7,5,9,3,5,4,3,9,5,0,3,3,6>>))

Threw == [threw |-> TRUE, v |-> SBig(FALSE, <<>>)]
Returned(v) == [threw |-> FALSE, v |-> v]

\* eas.ts 220-228: the uint160 prediction field.  BigInt(x) throws a
\* RangeError when x is NaN or infinite; Math.floor has made every finite x
\* integral.
BigInt(x) == IF IsInteger(x) THEN Returned(BigIntOfNumber(x)) ELSE Threw

\* sqrtPrice * Q96 / scale, unless a conversion threw
TimesQ96Over(sqrtPrice, scale) ==
  IF sqrtPrice.threw \/ scale.threw THEN Threw
  ELSE Returned(SDiv(SMul(sqrtPrice.v, Q96), scale.v))

\* the price taken from the complement of the probability
sqrtPriceX96_Complement(probability) ==
  LET price     == FDiv(FSub(Hundred, probability), Hundred)
      sqrtPrice == BigInt(FFloor(FMul(FSqrt(price), TenPow18)))
  IN  TimesQ96Over(sqrtPrice, BigInt(TenPow18))

sqrtPriceX96(probability) ==
  LET price     == FDiv(probability, Hundred)
      sqrtPrice == BigInt(FFloor(FMul(FSqrt(price), TenPow18)))
  IN  TimesQ96Over(sqrtPrice, BigInt(TenPow18))

\* A stored prediction value is a string: the decimal digits of an integer
\* (kind "int"), the empty string (kind "empty", which BigInt reads as 0n),
\* text BigInt rejects with a SyntaxError (kind "bad"), or no string at all
\* (kind "undefined", on which BigInt throws a TypeError).
IntString(neg, mag) == [kind |-> "int", neg |-> neg, mag |-> mag]
EmptyString == [kind |-> "empty", neg |-> FALSE, mag |-> <<>>]
BadString == [kind |-> "bad", neg |-> FALSE, mag |-> <<>>]
NoString == [kind |-> "undefined", neg |-> FALSE, mag |-> <<>>]

Null == [null |-> TRUE, v |-> NaN]
Some(v) == [null |-> FALSE, v |-> v]

\* the result returned without the clamp
decodeProbability_NoClamp(predictionValue) ==
  IF predictionValue.kind \in {"bad", "undefined"} THEN Null
  ELSE LET predictionBigInt == SBig(predictionValue.neg, predictionValue.mag)
           sqrtPrice == FDiv(NumberOfBigInt(SDiv(SMul(predictionBigInt, BigIntOfNumber(TenPow18)),
                                                 Q96)),
                             TenPow18)
           price == FMul(sqrtPrice, sqrtPrice)
       IN  Some(FMul(price, Hundred))

\* the square root taken for the price
decodeProbability_NoSquare(predictionValue) ==
  IF predictionValue.kind \in {"bad", "undefined"} THEN Null
  ELSE LET predictionBigInt == SBig(predictionValue.neg, predictionValue.mag)
           sqrtPrice == FDiv(NumberOfBigInt(SDiv(SMul(predictionBigInt, BigIntOfNumber(TenPow18)),
                                                 Q96)),
                             TenPow18)
           price == sqrtPrice
           probability == FMul(price, Hundred)
       IN  Some(FMax(DoubleZero, FMin(Hundred, probability)))

\* attestationService.ts 653-683
decodeProbability(predictionValue) ==
  IF predictionValue.kind \in {"bad", "undefined"} THEN Null
  ELSE LET predictionBigInt == SBig(predictionValue.neg, predictionValue.mag)
           sqrtPrice == FDiv(NumberOfBigInt(SDiv(SMul(predictionBigInt, BigIntOfNumber(TenPow18)),
                                                 Q96)),
                             TenPow18)
           price == FMul(sqrtPrice, sqrtPrice)
           probability == FMul(price, Hundred)
       IN  Some(FMax(DoubleZero, FMin(Hundred, probability)))

\* ------------------------------------------------------------------------
\* Calldata building (src/utils/eas.ts).  The file holds two definitions of
\* buildAttestationCalldata: the later one (viem, lines 204-284) and an
\* earlier one (eas-sdk SchemaEncoder, lines 69-132).
\* ------------------------------------------------------------------------

\* EAS contract addresses by chain
EAS_CONTRACTS ==
  (1 :> "0xA1207F3BBa224E2c9c3c6D5aF63D0eb1582Ce587")
    @@ (11155111 :> "0xC2679fBD37d54388Ce493F1DB75320D236e1815e")
    @@ (10 :> "0x4200000000000000000000000000000000000021")
    @@ (8453 :> "0x4200000000000000000000000000000000000021")
    @@ (42161 :> "0xbD75f629A22Dc1ceD33dDA0b68c546A1c035c458")

SCHEMA_ID == "0x2dbb0921fa38ebc044ab0a7fe109442c456fb9ad39a68ce0a32f193744d17744"
ZeroAddress == "0x0000000000000000000000000000000000000000"
ZeroBytes32 == "0x0000000000000000000000000000000000000000000000000000000000000000"

\* A string is the sequence of its UTF-16 code units; '...' is three full stops.
Ellipsis == <<46, 46, 46>>

\* s.substring(0, n)
Substring0(s, n) == SubSeq(s, 1, Min2(n, Len(s)))

\* eas.ts 229-231
comment(reasoning) ==
  IF Len(reasoning) > 180 THEN Substring0(reasoning, 177) \o Ellipsis ELSE reasoning

\* eas.ts 81-83, the earlier definition
commentEarlier(reasoning) ==
  IF Len(reasoning) > 200 THEN Substring0(reasoning, 197) \o Ellipsis ELSE reasoning

\* An address argument is its text and whether the text is a well-formed
\* 20-byte hexadecimal address; both encoders throw on any other text.
Address(text, wellFormed) == [text |-> text, wellFormed |-> wellFormed]

\* viem's integer encoding of an unsigned value: a negative value or one
\* wider than the range checked throws IntegerOutOfRangeError.  Releases of
\* viem differ in the range: the declared width of the type (uint160,
\* uint256) or only the 32-byte word it is written into.
EncodeUint(v, bits, checksWidth) ==
  IF v.threw THEN Threw
  ELSE IF v.v.neg \/ BitLength(v.v.mag) > (IF checksWidth THEN bits ELSE 256) THEN Threw
  ELSE v

\* ethers' encoding of a JavaScript number as an unsigned integer: the number
\* must be a safe integer and must fit the declared width.
EncodeUintNumber(x, bits) ==
  IF ~IsInteger(x) THEN Threw
  ELSE IF BitLength(x.m) + x.e > 53 \/ (x.s = 1 /\ ~IsZero(x)) THEN Threw
  ELSE IF BitLength(x.m) + x.e > bits THEN Threw
  ELSE Returned(BigIntOfNumber(x))

\* the five fields of the schema, in the order of the schema
SchemaFields(marketAddress, marketId, prediction, text) ==
  << [type |-> "address", name |-> "marketAddress", value |-> marketAddress],
     [type |-> "uint256", name |-> "marketId", value |-> marketId],
     [type |-> "bytes32", name |-> "questionId", value |-> ZeroBytes32],
     [type |-> "uint160", name |-> "prediction", value |-> prediction],
     [type |-> "string", name |-> "comment", value |-> text] >>

\* encodeAbiParameters / encodeData: the encoding exists when no field threw
EncodeFields(address, marketId, prediction, text) ==
  IF ~address.wellFormed \/ marketId.threw \/ prediction.threw THEN [threw |-> TRUE, v |-> <<>>]
  ELSE [threw |-> FALSE,
        v |-> SchemaFields(address.text, marketId.v.mag, prediction.v.mag, text)]

\* the attestation request around the encoded data
attestationRequest(encodedData) ==
  [schema |-> SCHEMA_ID,
   data |-> [recipient |-> ZeroAddress, expirationTime |-> 0, revocable |-> FALSE,
             refUID |-> ZeroBytes32, data |-> encodedData, value |-> 0]]

\* encodeFunctionData({ abi: EAS_ABI, functionName: 'attest', args: [request] })
encodeFunctionData(request) == [functionName |-> "attest", args |-> <<request>>]

NoCalldata == [null |-> TRUE, v |-> <<>>]

\* an unlisted chain served with the address of the default chain
easAddressOf_DefaultChain(chainId) ==
  IF chainId \in DOMAIN EAS_CONTRACTS
  THEN [undefined |-> FALSE, v |-> EAS_CONTRACTS[chainId]]
  ELSE [undefined |-> FALSE, v |-> EAS_CONTRACTS[42161]]

\* every listed chain served with the address registered for Ethereum mainnet
easAddressOf_Mainnet(chainId) ==
  IF chainId \in DOMAIN EAS_CONTRACTS
  THEN [undefined |-> FALSE, v |-> EAS_CONTRACTS[1]]
  ELSE [undefined |-> TRUE, v |-> ""]

\* EAS_CONTRACTS[chainId]: the address, or undefined for an unlisted chain
easAddressOf(chainId) ==
  IF chainId \in DOMAIN EAS_CONTRACTS
  THEN [undefined |-> FALSE, v |-> EAS_CONTRACTS[chainId]]
  ELSE [undefined |-> TRUE, v |-> ""]

\* the object returned once the data is encoded
CalldataFor(encodedData, easAddress, market, prediction, chainId) ==
  IF encodedData.threw THEN NoCalldata
  ELSE IF easAddress.undefined THEN NoCalldata
  ELSE [null |-> FALSE,
        v |-> [to |-> easAddress.v,
               data |-> encodeFunctionData(attestationRequest(encodedData.v)),
               value |-> "0",
               chainId |-> chainId,
               description |-> <<"Attest: ", prediction.probability, "% YES for market ",
                                 market.marketId>>]]

\* eas.ts 204-284.  Every throw inside the try block ends in return null.
buildAttestationCalldata(market, prediction, chainId, checksWidth) ==
  CalldataFor(EncodeFields(market.address,
                           EncodeUint(BigInt(market.marketId), 256, checksWidth),
                           EncodeUint(sqrtPriceX96(prediction.probability), 160, checksWidth),
                           comment(prediction.reasoning)),
              easAddressOf(chainId), market, prediction, chainId)

OneSixty == NumberOfDecimal(FALSE, <<160>>, 0)

\* Math.round(x): the nearest integer, a tie going up
RoundHalfUp(s, q, c) ==
  IF s = 0 THEN RoundNE(0, IF c >= 0 THEN BigAdd(q, <<1>>) ELSE q, 0)
  ELSE RoundNE(1, IF c > 0 THEN BigAdd(q, <<1>>) ELSE q, 0)

MathRound(x) ==
  IF x.k # "fin" \/ IsInteger(x) THEN x
  ELSE RoundHalfUp(x.s, ShiftRight(x.m, 0 - x.e),
                   BigCmp(LowBits(x.m, 0 - x.e), Pow2((0 - x.e) - 1)))

\* eas.ts 78, the earlier definition
predictionValueEarlier(probability) == MathRound(FDiv(FMul(probability, OneSixty), Hundred))

\* eas.ts 69-132, the earlier definition
buildAttestationCalldataEarlier(market, prediction, chainId) ==
  CalldataFor(EncodeFields(market.address,
                           EncodeUintNumber(market.marketId, 256),
                           EncodeUintNumber(predictionValueEarlier(prediction.probability), 160),
                           commentEarlier(prediction.reasoning)),
              easAddressOf(chainId), market, prediction, chainId)

\* ------------------------------------------------------------------------
\* The re-attestation filter (attestationService.ts 243-350).  A JavaScript
\* value read from a market or an attestation is a string (its UTF-16 code
\* units), a number or undefined.
\* ------------------------------------------------------------------------

Str(s) == [t |-> "string", s |-> s, n |-> 0]
Num(n) == [t |-> "number", s |-> <<>>, n |-> n]
Undefined == [t |-> "undefined", s |-> <<>>, n |-> 0]

\* the value counts as true in a condition
Truthy(v) == (v.t = "string" /\ v.s # <<>>) \/ (v.t = "number" /\ v.n # 0)

\* a || b
Or(a, b) == IF Truthy(a) THEN a ELSE b

RECURSIVE DigitsOf(_)
DigitsOf(n) == IF n < 10 THEN <<n>> ELSE Append(DigitsOf(n \div 10), n % 10)

\* the decimal digits of a natural number as characters
DecimalString(n) == [i \in 1..Len(DigitsOf(n)) |-> 48 + DigitsOf(n)[i]]

\* v?.toString()
ToStringOpt(v) == IF v.t = "number" THEN Str(DecimalString(v.n)) ELSE v

LowerChar(c) == IF 65 <= c /\ c <= 90 THEN c + 32 ELSE c

\* v?.toLowerCase() for a string or undefined v
ToLowerCaseOpt(v) == IF v.t = "string" THEN Str([i \in 1..Len(v.s) |-> LowerChar(v.s[i])]) ELSE v

\* v?.substring and v?.toLowerCase throw a TypeError on a number
ThrowsOnStringMethod(v) == v.t = "number"

\* attestationService.ts 271-272
marketAddressOf(market) == Or(market.marketGroupAddress, market.marketAddress)
marketIdOf(market) == Or(market.marketId, market.id)

\* the predicate of find without its comparison of the marketId
Matches_AddressOnly(att, marketAddress, marketId) ==
  ToLowerCaseOpt(att.marketAddress) = ToLowerCaseOpt(marketAddress)

\* attestationService.ts 280-283: the predicate of find
Matches(att, marketAddress, marketId) ==
  /\ ToLowerCaseOpt(att.marketAddress) = ToLowerCaseOpt(marketAddress)
  /\ ToStringOpt(att.marketId) = ToStringOpt(marketId)

\* the index find stops at, 0 when no attestation matches
FindMatching(atts, marketAddress, marketId) ==
  IF \E i \in 1..Len(atts) : Matches(atts[i], marketAddress, marketId)
  THEN CHOOSE i \in 1..Len(atts) :
         /\ Matches(atts[i], marketAddress, marketId)
         /\ \A j \in 1..(i - 1) : ~Matches(atts[j], marketAddress, marketId)
  ELSE 0

\* where a.sort(cmp) puts x in the sorted sequence s, cmp putting the later
\* createdAt first; the sort is stable
RECURSIVE InsertLatestFirst(_, _)
InsertLatestFirst(s, x) ==
  IF s = <<>> THEN <<x>>
  ELSE IF Head(s).createdAt >= x.createdAt THEN <<Head(s)>> \o InsertLatestFirst(Tail(s), x)
  ELSE <<x>> \o s

\* the attestations as the tool returned them, not sorted
getAllMyAttestations_Unsorted(attestations) == attestations

\* attestationService.ts 509-550: what the tool returned, sorted by createdAt
\* descending
RECURSIVE getAllMyAttestations(_)
getAllMyAttestations(attestations) ==
  IF attestations = <<>> THEN <<>>
  ELSE InsertLatestFirst(getAllMyAttestations(SubSeq(attestations, 1, Len(attestations) - 1)),
                         attestations[Len(attestations)])

\* a small non-negative integer as a Number
NumberOfInt(n) == NumberOfDecimal(FALSE, BigOfSmall(n), 0)

MsPerHour == NumberOfInt(1000 * 60 * 60)
TwentyFour == NumberOfInt(24)

\* attestationService.ts 298-300
hoursSinceLastAttestation(now, createdAt) == FDiv(NumberOfInt(now - createdAt), MsPerHour)

Skip == [push |-> FALSE, reason |-> ""]
Push(reason) == [push |-> TRUE, reason |-> reason]

NoPrediction == [null |-> TRUE, probability |-> NaN, reasoning |-> <<>>]
PredictionOf(probability, reasoning) ==
  [null |-> FALSE, probability |-> probability, reasoning |-> reasoning]

\* the comparison written > instead of >=
DecideOnPrevious_Strict(previousProbability, currentPrediction, threshold) ==
  IF previousProbability.null THEN Skip
  ELSE IF FGt(FAbs(FSub(currentPrediction.probability, previousProbability.v)), threshold)
       THEN Push("24h+ elapsed AND probability changed")
       ELSE Skip

\* attestationService.ts 312-326
DecideOnPrevious(previousProbability, currentPrediction, threshold) ==
  IF previousProbability.null THEN Skip
  ELSE IF FGe(FAbs(FSub(currentPrediction.probability, previousProbability.v)), threshold)
       THEN Push("24h+ elapsed AND probability changed")
       ELSE Skip

\* attestationService.ts 298-336, for the attestation find returned
DecideOnLast(lastAttestation, now, currentPrediction, threshold) ==
  IF FGe(hoursSinceLastAttestation(now, lastAttestation.createdAt), TwentyFour)
  THEN IF ~currentPrediction.null /\ lastAttestation.prediction.kind \notin {"empty", "undefined"}
       THEN DecideOnPrevious(decodeProbability(lastAttestation.prediction),
                             currentPrediction, threshold)
       ELSE Skip
  ELSE Skip

\* attestationService.ts 289-296
DecideOnFound(atts, found, now, currentPrediction, threshold) ==
  IF found = 0 THEN Push("Never attested")
  ELSE DecideOnLast(atts[found], now, currentPrediction, threshold)

\* one pass of the loop body with a catch block that skips the market
CheckMarket_FailClosed(market, atts, now, currentPrediction, threshold) ==
  IF ThrowsOnStringMethod(marketAddressOf(market))
  THEN Skip
  ELSE DecideOnFound(atts, FindMatching(atts, marketAddressOf(market), marketIdOf(market)),
                     now, currentPrediction, threshold)

\* attestationService.ts 269-346: one pass of the loop body for a market
CheckMarket(market, atts, now, currentPrediction, threshold) ==
  IF ThrowsOnStringMethod(marketAddressOf(market))
  THEN Push("Could not verify previous attestation")
  ELSE DecideOnFound(atts, FindMatching(atts, marketAddressOf(market), marketIdOf(market)),
                     now, currentPrediction, threshold)

\* generatePrediction is awaited (line 304) only for a market whose matching
\* attestation is at least 24 hours old
CallsGeneratePrediction(market, atts, now) ==
  /\ ~ThrowsOnStringMethod(marketAddressOf(market))
  /\ FindMatching(atts, marketAddressOf(market), marketIdOf(market)) # 0
  /\ FGe(hoursSinceLastAttestation(
           now, atts[FindMatching(atts, marketAddressOf(market), marketIdOf(market))].createdAt),
         TwentyFour)

\* ------------------------------------------------------------------------
\* Inputs.  A probability is the number JSON.parse reads from the model's
\* answer (attestationService.ts 396), written here as a decimal literal
\* (-1)^neg * digits / 10^scale, or the value NaN.
\* ------------------------------------------------------------------------

Lit(neg, digits, scale) == [kind |-> "dec", neg |-> neg, digits |-> digits, scale |-> scale]
NaNLit == [kind |-> "nan", neg |-> FALSE, digits |-> <<>>, scale |-> 0]

\* the number a literal denotes
NumberOf(lit) ==
  IF lit.kind = "nan" THEN NaN
  ELSE NumberOfDecimal(lit.neg, BigOfDecimal(lit.digits), lit.scale)

\* the probabilities the testable properties name
RoundTripLits ==
  { Lit(FALSE, <<0>>, 0), Lit(FALSE, <<1>>, 1), Lit(FALSE, <<1>>, 0), Lit(FALSE, <<2, 5>>, 0),
    Lit(FALSE, <<4, 9, 9>>, 1), Lit(FALSE, <<5, 0>>, 0), Lit(FALSE, <<5, 0, 1>>, 1),
    Lit(FALSE, <<6, 8>>, 0), Lit(FALSE, <<9, 9, 9>>, 1), Lit(FALSE, <<1, 0, 0>>, 0) }

MinusOne == Lit(TRUE, <<1>>, 0)
OneHundredOne == Lit(FALSE, <<1, 0, 1>>, 0)
\* 1e41, whose encoding needs more than 160 bits
TenPow41 == Lit(FALSE, <<1>> \o Zeros(41), 0)

OutOfDomainLits == { MinusOne, OneHundredOne, NaNLit, TenPow41 }

\* 50.00000000000001, one double above 50, and 1e-34, a positive probability
\* whose square root scaled by 10^18 is below 1
JustAboveFifty == Lit(FALSE, <<5, 0, 0, 0, 0, 0, 0, 0, 0, 0, 0, 0, 0, 0, 0, 1>>, 14)
CloseLits == { JustAboveFifty, Lit(FALSE, <<1>>, 34) }

\* an even grid over [0, 100], in thousandths of a percentage point
GridSteps == 7
GridLits == { Lit(FALSE, DigitsOf((100000 * k) \div GridSteps), 3) : k \in 0..GridSteps }

ProbabilityLits == RoundTripLits \cup OutOfDomainLits \cup CloseLits \cup GridLits

\* stored prediction values: encodings of 0 and 100, the encoding of 50 as the
\* codec writes it, -1, 2^160, -2^96, the empty string and text that is no
\* integer
TwoPow160 == Pow2(160)
EncodedFifty == sqrtPriceX96(NumberOf(Lit(FALSE, <<5, 0>>, 0))).v.mag
StoredValues ==
  { IntString(FALSE, <<>>), IntString(FALSE, Q96.mag), IntString(FALSE, EncodedFifty),
    IntString(TRUE, <<1>>), IntString(FALSE, TwoPow160), IntString(TRUE, Q96.mag),
    EmptyString, BadString, NoString }

\* reasoning texts of the lengths around both truncation limits
Text(n) == [i \in 1..n |-> 97 + ((i * 7) % 26)]
ReasoningLengths == {100, 180, 181, 200, 201, 250}

\* a question id that is not the all-zero one
QuestionId11 == "0x1111111111111111111111111111111111111111111111111111111111111111"

\* the arguments of buildAttestationCalldata.  A market object may carry the
\* question id of its market reference; no line of the builder reads it.
Markets ==
  { [marketId |-> NumberOf(l), address |-> a, questionId |-> q] :
      l \in {Lit(FALSE, <<1, 4, 7>>, 0), Lit(TRUE, <<5>>, 0), NaNLit},
      a \in {Address("0x4200000000000000000000000000000000000021", TRUE),
             Address("0xabc", FALSE)},
      q \in {ZeroBytes32, QuestionId11} }

BuildLits == { Lit(FALSE, <<0>>, 0), Lit(FALSE, <<5, 0>>, 0), Lit(FALSE, <<1, 0, 0>>, 0),
               MinusOne, OneHundredOne, NaNLit, TenPow41 }

Predictions ==
  { PredictionOf(NumberOf(l), Text(n)) : l \in BuildLits, n \in ReasoningLengths }

ChainIds == DOMAIN EAS_CONTRACTS \cup {999999}

\* the markets and attestations of the filter
Chars0xAb == <<48, 120, 65, 98>>
Chars0xab == <<48, 120, 97, 98>>
Chars0xcd == <<48, 120, 99, 100>>

MarketA ==
  [id |-> Str(<<49, 48, 49>>), marketGroupAddress |-> Str(Chars0xAb),
   marketAddress |-> Undefined, marketId |-> Num(7)]
MarketB ==
  [id |-> Str(<<57>>), marketGroupAddress |-> Undefined,
   marketAddress |-> Str(Chars0xcd), marketId |-> Num(0)]
MarketC ==
  [id |-> Str(<<53>>), marketGroupAddress |-> Num(5),
   marketAddress |-> Undefined, marketId |-> Num(3)]

MarketLists == { <<MarketA>>, <<MarketA, MarketB>>, <<MarketC, MarketA>> }

AttestationOf(marketAddress, marketId, createdAt, stored) ==
  [marketAddress |-> marketAddress, marketId |-> marketId, createdAt |-> createdAt,
   prediction |-> stored]

\* an attestation of market B, made at time 0 with the encoding of 100
AttestationB == AttestationOf(Str(Chars0xcd), Str(<<57>>), 0, IntString(FALSE, Q96.mag))

\* two attestations of market A as the tool may list them: one made at time 0
\* with the encoding of 50, and one made an hour later
TwoOfMarketA ==
  << AttestationOf(Str(Chars0xab), Str(<<55>>), 0, IntString(FALSE, EncodedFifty)),
     AttestationOf(Str(Chars0xAb), Num(7), 60 * 60 * 1000, IntString(FALSE, EncodedFifty)) >>

\* an attestation at the address of market A (in lower case) with another
\* marketId, and one with the marketId of market A at another address
SameAddressOtherId ==
  AttestationOf(Str(Chars0xab), Str(<<56>>), 0, IntString(FALSE, EncodedFifty))
SameIdOtherAddress ==
  AttestationOf(Str(Chars0xcd), Num(7), 0, IntString(FALSE, EncodedFifty))

AttestationLists ==
  {<<>>, <<SameAddressOtherId>>, <<SameIdOtherAddress>>,
   <<SameAddressOtherId, SameIdOtherAddress>>}
    \cup { <<AttestationOf(Str(Chars0xab), Str(<<55>>), 0, v)>> : v \in StoredValues }
    \cup { <<AttestationB, AttestationOf(Str(Chars0xab), Num(7), 0, v)>> :
             v \in {IntString(FALSE, EncodedFifty), BadString} }
    \cup { TwoOfMarketA, <<TwoOfMarketA[2], TwoOfMarketA[1]>> }

DayMs == 24 * 60 * 60 * 1000
Times == {DayMs - 1, DayMs}

Thresholds == { NumberOfInt(10), NumberOfInt(20) }

CurrentPredictions ==
  {NoPrediction}
    \cup { PredictionOf(NumberOf(l), Text(100)) :
             l \in {Lit(FALSE, <<6, 5>>, 0), Lit(FALSE, <<6, 0>>, 0), Lit(FALSE, <<3, 0>>, 0),
                    Lit(FALSE, <<9, 0>>, 0)} }

\* ------------------------------------------------------------------------
\* The autonomous loop.  The repository holds two implementations of it, and
\* an agent runs one of them: the AUTO_ATTEST and LOOP_CONTROL actions over
\* the stateManager singleton (design "actions"), or the AttestationService
\* started and stopped by the AUTONOMOUS_MODE action (design "service").
\* A timer is the record setInterval creates: its id, the callback it runs
\* and its period.  A loop id of 0 stands for undefined.
\* ------------------------------------------------------------------------

\* the numbers 1 and 10
DoubleOne == NumberOfInt(1)
DoubleTen == NumberOfInt(10)
DoubleHundred == NumberOfInt(100)

\* loopControl.ts 164-169: a value above 1 is taken as a percentage
ParsedConfidence(confidence) ==
  IF FGt(confidence, DoubleOne) THEN FDiv(confidence, DoubleHundred) ELSE confidence

DefaultInterval == 300000
DefaultBatchSize == 5
DefaultMinConfidence == NumberOfDecimal(FALSE, <<6>>, 1)
HistoryLimit == 100

\* stateManager.ts 27-37
InitialAutonomousState ==
  [enabled |-> FALSE, loopId |-> 0, interval |-> DefaultInterval,
   batchSize |-> DefaultBatchSize, minConfidence |-> DefaultMinConfidence,
   marketsProcessed |-> 0, attestationCount |-> 0, attestationHistory |-> <<>>]

\* the id setInterval returns: the lowest id no pending timer holds
NewTimerId(ts) ==
  CHOOSE i \in 1..(Cardinality(ts) + 1) :
    /\ \A t \in ts : t.id # i
    /\ \A j \in 1..(i - 1) : \E t \in ts : t.id = j

\* setInterval(callback, interval)
SetIntervalTimer(ts, callback, interval) ==
  ts \cup {[id |-> NewTimerId(ts), callback |-> callback, interval |-> interval]}

\* clearInterval(id)
ClearInterval(ts, id) == {t \in ts : t.id # id}

\* a slice that keeps one element too many
Slice0_Inclusive(s, n) == SubSeq(s, 1, Min2(n + 1, Len(s)))

\* s.slice(0, n)
Slice0(s, n) == SubSeq(s, 1, Min2(n, Len(s)))

\* s.slice(-n) for n >= 0; slice(-0) is slice(0), the whole array
SliceLast(s, n) == IF n = 0 THEN s ELSE SubSeq(s, Max2(1, Len(s) - n + 1), Len(s))

\* stateManager.ts 54-60
setAutonomousEnabledFalse(st, ts) ==
  [state |-> [st EXCEPT !.enabled = FALSE, !.loopId = 0],
   timers |-> IF st.loopId # 0 THEN ClearInterval(ts, st.loopId) ELSE ts]

\* stateManager.ts 90-92
setMinConfidence(confidence) == FMax(DoubleZero, FMin(DoubleOne, confidence))

\* stateManager.ts 114-131
addAttestationRecord(st, record) ==
  [st EXCEPT !.attestationHistory = SliceLast(Append(@, record), HistoryLimit),
             !.attestationCount = IF record.success THEN @ + 1 ELSE @]

\* s.reverse()
Reverse(s) == [i \in 1..Len(s) |-> s[Len(s) + 1 - i]]

\* stateManager.ts 137-141
getRecentAttestations(st, limit) == Reverse(SliceLast(st.attestationHistory, limit))

\* part_002 88-129: the simulated markets, all of them yes/no markets
SimulatedMarket(marketId, address) ==
  [marketId |-> marketId, address |-> address, claimStatementNo |-> TRUE]

allMarkets ==
  << SimulatedMarket(147, "0x1234567890123456789012345678901234567890"),
     SimulatedMarket(148, "0x2345678901234567890123456789012345678901"),
     SimulatedMarket(152, "0x3456789012345678901234567890123456789012"),
     SimulatedMarket(155, "0x4567890123456789012345678901234567890123"),
     SimulatedMarket(167, "0x5678901234567890123456789012345678901234") >>

\* part_002 132
IsYesNo(m) == m.claimStatementNo
yesNoMarkets == SelectSeq(allMarkets, IsYesNo)

\* part_002 135-136
attestedMarketIds(st) ==
  { getRecentAttestations(st, HistoryLimit)[i].marketId :
      i \in 1..Len(getRecentAttestations(st, HistoryLimit)) }

\* part_002 139
unattested(st) ==
  LET NotAttested(m) == m.marketId \notin attestedMarketIds(st)
  IN  SelectSeq(yesNoMarkets, NotAttested)

\* a market of the loop as the argument buildAttestationCalldata takes
BuilderMarket(marketId, address) ==
  [marketId |-> NumberOfInt(marketId), address |-> Address(address, TRUE),
   questionId |-> ZeroBytes32]

\* what the language model answers: a prediction as JSON, or text that
\* JSON.parse rejects
Answer(prob, confidence) ==
  [json |-> TRUE, probability |-> prob, confidence |-> confidence]
NoJson == [json |-> FALSE, probability |-> NaN, confidence |-> NaN]

LoopPrediction(prob, reasoning, confidence) ==
  [null |-> FALSE, probability |-> prob, reasoning |-> reasoning,
   confidence |-> confidence]

NoLoopPrediction ==
  [null |-> TRUE, probability |-> NaN, reasoning |-> <<>>, confidence |-> NaN]

\* part_002 32-81
generatePredictionOf(answer) ==
  IF answer.json
  THEN LoopPrediction(answer.probability, Text(100),
                      IF FGt(answer.confidence, DoubleOne)
                      THEN FDiv(answer.confidence, DoubleTen)
                      ELSE answer.confidence)
  ELSE LoopPrediction(NumberOfInt(50), Text(29), NumberOfDecimal(FALSE, <<1>>, 1))

\* the threshold is compared with the probability
BelowThreshold_Probability(prediction, minConfidence) ==
  FLt(prediction.probability, minConfidence)

\* part_002 164, attestationService.ts 776: prediction.confidence < minConfidence
BelowThreshold(prediction, minConfidence) == FLt(prediction.confidence, minConfidence)

NoCycle == [phase |-> "none"]

\* part_002 131-152: the cycle a call of processCycle leaves at its first
\* await; awaited is the interval of the handler awaiting it, 0 when the call
\* comes from a timer
NewCycle(st, awaited) ==
  [phase |-> "running", awaited |-> awaited,
   batch |-> Slice0(unattested(st), st.batchSize), index |-> 1,
   batchSize |-> st.batchSize, minConfidence |-> st.minConfidence]

\* part_002 262-275: the handler goes on after its first cycle
InstallLoop(st, ts, interval) ==
  [state |-> [st EXCEPT !.loopId = NewTimerId(ts)],
   timers |-> SetIntervalTimer(ts, "autoAttest", interval)]

\* part_002 245-254
ParsedInterval(st, minutes) ==
  IF minutes > 0 /\ minutes <= 60 THEN minutes * 60 * 1000 ELSE st.interval

\* part_002 170-186: the record a confident prediction leaves, if calldata
\* was built
AfterAttestation(st, market, prediction) ==
  IF buildAttestationCalldataEarlier(BuilderMarket(market.marketId, market.address),
                                     prediction, 8453).null
  THEN st
  ELSE addAttestationRecord(st, [marketId |-> market.marketId,
                                 prediction |-> prediction.probability,
                                 confidence |-> prediction.confidence,
                                 success |-> TRUE])

\* attestationService.ts 38-46: the default configuration
DefaultConfig ==
  [enabled |-> FALSE, interval |-> DefaultInterval, minConfidence |-> DefaultMinConfidence,
   batchSize |-> DefaultBatchSize, probabilityChangeThreshold |-> NumberOfInt(10)]

\* attestationService.ts 69-74: the character's autonomousMode settings merged
\* over the defaults
Configs == { DefaultConfig, [DefaultConfig EXCEPT !.batchSize = 1] }

\* the markets the service is handed by list_active_markets
ServiceMarket(id, marketId, marketGroupAddress) ==
  [id |-> id, marketId |-> marketId, marketGroupAddress |-> marketGroupAddress]

ServiceMarkets ==
  << ServiceMarket("101", 7, "0x1234567890123456789012345678901234567890"),
     ServiceMarket("102", 9, "0x2345678901234567890123456789012345678901") >>

\* what filterMarketsForAttestation may return for them
CandidateLists == { <<>>, <<ServiceMarkets[1]>>, ServiceMarkets }

\* attestationService.ts 170-205: the cycle at its awaits before the batch
FetchingCycle == [phase |-> "fetching"]

\* attestationService.ts 220-223
AttestingCycle(candidates, batchSize) ==
  IF Slice0(candidates, batchSize) = <<>> THEN NoCycle
  ELSE [phase |-> "attesting", batch |-> Slice0(candidates, batchSize), index |-> 1,
        batchSize |-> batchSize]

\* attestationService.ts 784-795
attestationDataOf(market, prediction, width) ==
  buildAttestationCalldata(BuilderMarket(market.marketId, market.marketGroupAddress),
                           prediction, 42161, width)

\* attestationService.ts 859-863
HistorySet(history, id, prediction) ==
  [k \in DOMAIN history \cup {id} |->
     IF k = id THEN [probability |-> prediction.probability,
                     confidence |-> prediction.confidence]
     ELSE history[k]]

\* the cycle after attestToMarket returned for the market at index
AdvanceCycle(cycle) ==
  IF cycle.index = Len(cycle.batch) THEN NoCycle
  ELSE [cycle EXCEPT !.index = @ + 1]

\* inputs of the loop
MaxCycles == 2
MaxPredictions == 2
StartMinutes == {0, 10, 61}
\* 29 seconds, 10 minutes, 61 minutes
IntervalCommands == {29000, 600000, 3660000}
\* 0.8, 80 and 150 as loopControl.ts 164-169 reads them
ConfidenceCommands ==
  { ParsedConfidence(NumberOfDecimal(FALSE, <<8>>, 1)), ParsedConfidence(NumberOfInt(80)),
    ParsedConfidence(NumberOfInt(150)) }
BatchCommands == {0, 1, 51}
Answers ==
  { Answer(NumberOfInt(50), NumberOfInt(7)),
    Answer(NumberOf(MinusOne), NumberOfInt(7)),
    NoJson }

\* what generatePrediction resolves to for them
GeneratedPredictions == { generatePredictionOf(answer) : answer \in Answers }
ServicePredictions ==
  { NoLoopPrediction,
    LoopPrediction(NumberOfInt(50), Text(100), NumberOfDecimal(FALSE, <<5>>, 1)),
    LoopPrediction(NumberOfInt(50), Text(100), NumberOfDecimal(FALSE, <<7>>, 1)),
    LoopPrediction(NumberOf(MinusOne), Text(100), NumberOfDecimal(FALSE, <<7>>, 1)) }

\* ------------------------------------------------------------------------
\* Prediction validation.  The object JSON.parse makes of the model's answer
\* has a probability and a confidence that are numbers or missing, and a
\* reasoning that is a string or missing.
\* ------------------------------------------------------------------------

NumberValue(x) == [t |-> "number", x |-> x]
StringValue(s) == [t |-> "string", s |-> s]
Missing == [t |-> "undefined"]

\* !v
Not(v) ==
  \/ v.t = "undefined"
  \/ v.t = "string" /\ v.s = <<>>
  \/ v.t = "number" /\ (v.x.k = "nan" \/ IsZero(v.x))

ParsedPrediction(prob, reasoning, confidence) ==
  [probability |-> prob, reasoning |-> reasoning, confidence |-> confidence]

\* attestMarket.ts 149-157: the handler throws
attestMarketRejects(prediction) ==
  \/ Not(prediction.probability)
  \/ Not(prediction.reasoning)
  \/ prediction.confidence.t = "undefined"

\* attestationService.ts 406-415: generatePrediction throws, and returns null
generatePredictionRejects(prediction) ==
  \/ prediction.probability.t = "undefined"
  \/ Not(prediction.reasoning)
  \/ prediction.confidence.t = "undefined"

\* attestMarket.ts 159-167: the market the handler found, as it hands it to
\* buildAttestationCalldata
AttestedMarket ==
  [marketId |-> NumberOfInt(147),
   address |-> Address("0x4200000000000000000000000000000000000021", TRUE),
   questionId |-> ZeroBytes32]

\* attestMarket.ts 159-171
attestationDataFor(prediction, width) ==
  IF attestMarketRejects(prediction) THEN NoCalldata
  ELSE buildAttestationCalldata(
         AttestedMarket,
         PredictionOf(IF prediction.probability.t = "number" THEN prediction.probability.x
                      ELSE NaN,
                      prediction.reasoning.s),
         42161, width)

\* the answers validated
ParsedProbabilities ==
  { Missing }
    \cup { NumberValue(NumberOf(l)) :
             l \in { Lit(FALSE, <<0>>, 0), Lit(FALSE, <<5>>, 1), Lit(FALSE, <<5, 0>>, 0),
                     Lit(FALSE, <<1, 0, 0>>, 0), OneHundredOne, MinusOne } }
ParsedReasonings == { Missing, StringValue(<<>>), StringValue(Text(1)), StringValue(Text(100)) }
ParsedConfidences ==
  { Missing }
    \cup { NumberValue(NumberOf(l)) :
             l \in { Lit(FALSE, <<0>>, 0), Lit(FALSE, <<5>>, 1), Lit(FALSE, <<1>>, 0) } }
ParsedPredictions ==
  { ParsedPrediction(p, r, c) :
      p \in ParsedProbabilities, r \in ParsedReasonings, c \in ParsedConfidences }

\* ------------------------------------------------------------------------
\* State
\* ------------------------------------------------------------------------

VARIABLES
  cpc,              \* codec session: "idle", "encoded", "decoded", "pair", "stored"
  literal,          \* the literal of the first probability encoded
  probability,      \* prediction.probability of the first call
  encoded,          \* what the sqrtPriceX96 computation returned (or that it threw)
  literal2,         \* the same for a second call
  probability2,
  encoded2,
  predictionValue,  \* the argument of decodeProbability
  decoded,          \* what decodeProbability returned
  bpc,              \* builder call: "idle", "built"
  checksWidth,      \* the installed viem checks integers against their declared width
  definition,       \* which definition of buildAttestationCalldata ran
  callMarket,       \* the arguments of the call
  callPrediction,
  callChainId,
  calldata,         \* what the call returned
  fpc,              \* filterMarketsForAttestation: "idle", "loop", "done"
  probabilityChangeThreshold,  \* config.probabilityChangeThreshold
  markets,          \* the argument of filterMarketsForAttestation
  allMyAttestations,
  marketIndex,      \* the position of the for loop in markets
  clock,            \* the last value Date.now() returned
  passes,           \* one record for each pass of the loop: what Date.now() and
                    \* generatePrediction (when it was called) returned
  candidateMarkets,
  design,           \* which implementation of the loop the agent runs
  autonomousState,  \* stateManager's state
  isRunning,        \* the fields of AttestationService
  intervalId,
  config,
  attestationHistory,
  timers,           \* the timers setInterval created and clearInterval has not removed
  cycles,           \* the cycles in progress, each at its latest await
  cyclesStarted,    \* how many cycles have begun
  calldataBuilt,    \* how many calls of buildAttestationCalldata the loop made
  transactionsSubmitted,  \* how many transactions the loop handed to SUBMIT_TRANSACTION
  predictions,      \* how many calls of generatePrediction have resolved
  lastPrediction,   \* the cycle of the latest of them, and what it resolved to
  vpc,              \* prediction validation: "idle", "attestMarket", "service"
  parsed,           \* the object JSON.parse made of the model's answer
  rejected,         \* the validation threw
  attestationData,  \* what the ATTEST_MARKET handler got from buildAttestationCalldata
  recent,           \* what the latest call of getRecentAttestations returned
  recentLimit,      \* its argument, -1 before the first call
  ipc,              \* initializeService: "none", "constructed", "waiting", "started",
                    \* "failed", "disabled"
  polls,            \* how many times waitForSapiencePlugin asked for the service
  sapienceAvailable \* runtime.getService('sapience') returns the service

codecVars == <<cpc, literal, probability, encoded, literal2, probability2, encoded2,
               predictionValue, decoded>>

buildVars == <<bpc, checksWidth, definition, callMarket, callPrediction, callChainId, calldata>>

filterVars == <<fpc, probabilityChangeThreshold, markets, allMyAttestations, marketIndex,
                clock, passes, candidateMarkets>>

loopVars == <<design, autonomousState, isRunning, intervalId, config, attestationHistory,
              timers, cycles, cyclesStarted, calldataBuilt, transactionsSubmitted,
              predictions, lastPrediction>>

validateVars == <<vpc, parsed, rejected, attestationData>>

historyVars == <<recent, recentLimit>>

initVars == <<ipc, polls, sapienceAvailable>>

vars == <<codecVars, buildVars, filterVars, loopVars, validateVars, historyVars, initVars>>

NoLit == [kind |-> "none", neg |-> FALSE, digits |-> <<>>, scale |-> 0]

CodecIdle ==
  /\ cpc = "idle"
  /\ literal = NoLit /\ probability = NaN /\ encoded = Threw
  /\ literal2 = NoLit /\ probability2 = NaN /\ encoded2 = Threw
  /\ predictionValue = BadString /\ decoded = Null

NoMarket == [marketId |-> NaN, address |-> Address("", FALSE), questionId |-> ZeroBytes32]

BuildIdle ==
  /\ bpc = "idle"
  /\ definition = "none"
  /\ callMarket = NoMarket /\ callPrediction = NoPrediction /\ callChainId = 0
  /\ calldata = NoCalldata

FilterIdle ==
  /\ fpc = "idle"
  /\ markets = <<>> /\ allMyAttestations = <<>> /\ marketIndex = 0 /\ clock = 0
  /\ passes = <<>> /\ candidateMarkets = <<>>

LoopAtConstruction ==
  /\ autonomousState = InitialAutonomousState
  /\ isRunning = FALSE /\ intervalId = 0
  /\ attestationHistory = <<>>
  /\ timers = {} /\ cycles = [c \in 1..MaxCycles |-> NoCycle] /\ cyclesStarted = 0
  /\ calldataBuilt = 0 /\ transactionsSubmitted = 0
  /\ predictions = 0 /\ lastPrediction = [cycle |-> 0, prediction |-> NoLoopPrediction]

LoopIdle ==
  /\ design = "none"
  /\ config = DefaultConfig
  /\ LoopAtConstruction

ValidateIdle ==
  /\ vpc = "idle"
  /\ parsed = ParsedPrediction(Missing, Missing, Missing)
  /\ rejected = FALSE
  /\ attestationData = NoCalldata

HistoryIdle == recent = <<>> /\ recentLimit = -1

InitIdle == ipc = "none" /\ polls = 0 /\ sapienceAvailable = FALSE

\* ------------------------------------------------------------------------
\* The codec, call by call
\* ------------------------------------------------------------------------

\* buildAttestationCalldata computes the prediction field for a probability
Encode(lit) ==
  /\ cpc = "idle"
  /\ cpc' = "encoded"
  /\ literal' = lit
  /\ probability' = NumberOf(lit)
  /\ encoded' = sqrtPriceX96(probability')
  /\ UNCHANGED <<literal2, probability2, encoded2, predictionValue, decoded>>
  /\ UNCHANGED <<buildVars, filterVars, loopVars, validateVars, historyVars, initVars>>

\* a second, independent call
EncodeSecond(lit) ==
  /\ cpc = "encoded"
  /\ cpc' = "pair"
  /\ literal2' = lit
  /\ probability2' = NumberOf(lit)
  /\ encoded2' = sqrtPriceX96(probability2')
  /\ UNCHANGED <<literal, probability, encoded, predictionValue, decoded>>
  /\ UNCHANGED <<buildVars, filterVars, loopVars, validateVars, historyVars, initVars>>

\* the value written on chain comes back as a decimal string and is decoded
DecodeEncoded ==
  /\ cpc = "encoded"
  /\ ~encoded.threw
  /\ cpc' = "decoded"
  /\ predictionValue' = IntString(encoded.v.neg, encoded.v.mag)
  /\ decoded' = decodeProbability(predictionValue')
  /\ UNCHANGED <<literal, probability, encoded, literal2, probability2, encoded2>>
  /\ UNCHANGED <<buildVars, filterVars, loopVars, validateVars, historyVars, initVars>>

\* decodeProbability on a stored value of any origin
DecodeStored(v) ==
  /\ cpc = "idle"
  /\ cpc' = "stored"
  /\ predictionValue' = v
  /\ decoded' = decodeProbability(v)
  /\ UNCHANGED <<literal, probability, encoded, literal2, probability2, encoded2>>
  /\ UNCHANGED <<buildVars, filterVars, loopVars, validateVars, historyVars, initVars>>

CodecNext ==
  \/ \E lit \in ProbabilityLits : Encode(lit)
  \/ \E lit \in ProbabilityLits : EncodeSecond(lit)
  \/ DecodeEncoded
  \/ \E v \in StoredValues : DecodeStored(v)

CodecInit ==
  /\ CodecIdle
  /\ BuildIdle /\ checksWidth = TRUE
  /\ FilterIdle /\ probabilityChangeThreshold = NumberOfInt(10)
  /\ LoopIdle
  /\ ValidateIdle
  /\ HistoryIdle
  /\ InitIdle

SpecCodec == CodecInit /\ [][CodecNext]_vars

\* ------------------------------------------------------------------------
\* Calls of buildAttestationCalldata
\* ------------------------------------------------------------------------

\* the later definition (eas.ts 204-284)
Build(market, prediction, chainId) ==
  /\ bpc = "idle"
  /\ bpc' = "built"
  /\ definition' = "later"
  /\ callMarket' = market
  /\ callPrediction' = prediction
  /\ callChainId' = chainId
  /\ calldata' = buildAttestationCalldata(market, prediction, chainId, checksWidth)
  /\ UNCHANGED checksWidth
  /\ UNCHANGED <<codecVars, filterVars, loopVars, validateVars, historyVars, initVars>>

\* the earlier definition (eas.ts 69-132)
BuildEarlier(market, prediction, chainId) ==
  /\ bpc = "idle"
  /\ bpc' = "built"
  /\ definition' = "earlier"
  /\ callMarket' = market
  /\ callPrediction' = prediction
  /\ callChainId' = chainId
  /\ calldata' = buildAttestationCalldataEarlier(market, prediction, chainId)
  /\ UNCHANGED checksWidth
  /\ UNCHANGED <<codecVars, filterVars, loopVars, validateVars, historyVars, initVars>>

BuildNext ==
  \/ \E market \in Markets, prediction \in Predictions, chainId \in ChainIds :
       Build(market, prediction, chainId)
  \/ \E market \in Markets, prediction \in Predictions, chainId \in ChainIds :
       BuildEarlier(market, prediction, chainId)

BuildInit ==
  /\ CodecIdle
  /\ BuildIdle /\ checksWidth \in BOOLEAN
  /\ FilterIdle /\ probabilityChangeThreshold = NumberOfInt(10)
  /\ LoopIdle
  /\ ValidateIdle
  /\ HistoryIdle
  /\ InitIdle

SpecBuild == BuildInit /\ [][BuildNext]_vars

\* ------------------------------------------------------------------------
\* filterMarketsForAttestation, one loop pass at a time
\* ------------------------------------------------------------------------

\* lines 243-266: the wallet address is known and the attestations are fetched;
\* atts is what get_attestations_by_address returned
FilterStart(ms, atts) ==
  /\ fpc = "idle"
  /\ fpc' = "loop"
  /\ markets' = ms
  /\ allMyAttestations' = getAllMyAttestations(atts)
  /\ marketIndex' = 1
  /\ candidateMarkets' = <<>>
  /\ UNCHANGED <<probabilityChangeThreshold, clock, passes>>
  /\ UNCHANGED <<codecVars, buildVars, loopVars, validateVars, historyVars, initVars>>

\* lines 247-253: no wallet address, nothing is a candidate
FilterNoWallet(ms) ==
  /\ fpc = "idle"
  /\ fpc' = "done"
  /\ markets' = ms
  /\ candidateMarkets' = <<>>
  /\ UNCHANGED <<probabilityChangeThreshold, allMyAttestations, marketIndex, clock,
                 passes>>
  /\ UNCHANGED <<codecVars, buildVars, loopVars, validateVars, historyVars, initVars>>

\* what one pass adds to candidateMarkets
Pushed(market, outcome) ==
  IF outcome.push THEN <<[market |-> market, _attestationReason |-> outcome.reason]>> ELSE <<>>

\* lines 268-347: one pass of the loop; now is what Date.now() returns and
\* currentPrediction what generatePrediction resolves to when it is called
FilterPass(now, currentPrediction) ==
  /\ fpc = "loop"
  /\ marketIndex <= Len(markets)
  /\ now >= clock
  /\ CallsGeneratePrediction(markets[marketIndex], allMyAttestations, now)
       \/ currentPrediction.null
  /\ passes' = Append(passes,
                      [now |-> now,
                       called |-> CallsGeneratePrediction(markets[marketIndex],
                                                          allMyAttestations, now),
                       currentPrediction |-> currentPrediction])
  /\ candidateMarkets' =
       candidateMarkets \o Pushed(markets[marketIndex],
                                  CheckMarket(markets[marketIndex], allMyAttestations, now,
                                              currentPrediction, probabilityChangeThreshold))
  /\ marketIndex' = marketIndex + 1
  /\ clock' = now
  /\ UNCHANGED <<fpc, probabilityChangeThreshold, markets, allMyAttestations>>
  /\ UNCHANGED <<codecVars, buildVars, loopVars, validateVars, historyVars, initVars>>

\* line 349
FilterReturn ==
  /\ fpc = "loop"
  /\ marketIndex > Len(markets)
  /\ fpc' = "done"
  /\ UNCHANGED <<probabilityChangeThreshold, markets, allMyAttestations, marketIndex, clock,
                 passes, candidateMarkets>>
  /\ UNCHANGED <<codecVars, buildVars, loopVars, validateVars, historyVars, initVars>>

FilterNext ==
  \/ \E ms \in MarketLists, atts \in AttestationLists : FilterStart(ms, atts)
  \/ \E ms \in MarketLists : FilterNoWallet(ms)
  \/ \E now \in Times, currentPrediction \in CurrentPredictions : FilterPass(now, currentPrediction)
  \/ FilterReturn

FilterInit ==
  /\ CodecIdle
  /\ BuildIdle /\ checksWidth = TRUE
  /\ FilterIdle /\ probabilityChangeThreshold \in Thresholds
  /\ LoopIdle
  /\ ValidateIdle
  /\ HistoryIdle
  /\ InitIdle

SpecFilter == FilterInit /\ [][FilterNext]_vars

\* ------------------------------------------------------------------------
\* The autonomous loop, step by step.  A step runs from one await to the
\* next; cycle c is the c-th cycle begun.
\* ------------------------------------------------------------------------

\* part_002 225-275: "start auto mode", with or without a number of minutes.
\* When autonomous mode is enabled already the handler only replies.
AutoAttestHandler(minutes) ==
  /\ design = "actions"
  /\ ~autonomousState.enabled
  /\ cyclesStarted < MaxCycles
  /\ cyclesStarted' = cyclesStarted + 1
  /\ LET st == [autonomousState EXCEPT !.enabled = TRUE,
                                       !.interval = ParsedInterval(autonomousState, minutes)]
     IN  IF unattested(st) = <<>>
         THEN /\ autonomousState' = InstallLoop(st, timers, st.interval).state
              /\ timers' = InstallLoop(st, timers, st.interval).timers
              /\ cycles' = cycles
         ELSE /\ autonomousState' = st
              /\ timers' = timers
              /\ cycles' = [cycles EXCEPT ![cyclesStarted + 1] = NewCycle(st, st.interval)]
  /\ UNCHANGED <<design, isRunning, intervalId, config, attestationHistory, calldataBuilt,
                 transactionsSubmitted>>
  /\ UNCHANGED <<predictions, lastPrediction>>
  /\ UNCHANGED <<codecVars, buildVars, filterVars, validateVars, historyVars, initVars>>

\* part_002 263-273: the callback of the timer the handler installed
AutoAttestTick(t) ==
  /\ design = "actions"
  /\ t \in timers /\ t.callback = "autoAttest"
  /\ IF autonomousState.enabled
     THEN /\ cyclesStarted < MaxCycles
          /\ cyclesStarted' = cyclesStarted + 1
          /\ cycles' = IF unattested(autonomousState) = <<>> THEN cycles
                       ELSE [cycles EXCEPT ![cyclesStarted + 1] = NewCycle(autonomousState, 0)]
          /\ UNCHANGED <<autonomousState, timers>>
     ELSE /\ autonomousState.loopId # 0
          /\ timers' = ClearInterval(timers, autonomousState.loopId)
          /\ autonomousState' = [autonomousState EXCEPT !.loopId = 0]
          /\ UNCHANGED <<cycles, cyclesStarted>>
  /\ UNCHANGED <<design, isRunning, intervalId, config, attestationHistory, calldataBuilt,
                 transactionsSubmitted>>
  /\ UNCHANGED <<predictions, lastPrediction>>
  /\ UNCHANGED <<codecVars, buildVars, filterVars, validateVars, historyVars, initVars>>

\* part_002 157-190: generatePrediction resolves to prediction for the market
\* at index of cycle c, and the loop body runs on to its next await
PredictionReturns(c, prediction) ==
  /\ design = "actions"
  /\ cycles[c].phase = "running"
  /\ cycles[c].index <= Len(cycles[c].batch)
  /\ predictions < MaxPredictions
  /\ predictions' = predictions + 1
  /\ lastPrediction' = [cycle |-> c, prediction |-> prediction]
  /\ cycles' = [cycles EXCEPT ![c].index = @ + 1]
  /\ IF BelowThreshold(prediction, cycles[c].minConfidence)
     THEN UNCHANGED <<autonomousState, calldataBuilt>>
     ELSE /\ calldataBuilt' = calldataBuilt + 1
          /\ autonomousState' = AfterAttestation(autonomousState,
                                                 cycles[c].batch[cycles[c].index],
                                                 prediction)
  /\ UNCHANGED <<design, isRunning, intervalId, config, attestationHistory, timers,
                 cyclesStarted, transactionsSubmitted>>
  /\ UNCHANGED <<codecVars, buildVars, filterVars, validateVars, historyVars, initVars>>

\* part_002 192-196, and 262-275 when a handler awaits the cycle
CycleFinishes(c) ==
  /\ design = "actions"
  /\ cycles[c].phase = "running"
  /\ cycles[c].index > Len(cycles[c].batch)
  /\ cycles' = [cycles EXCEPT ![c] = NoCycle]
  /\ LET st == [autonomousState EXCEPT !.marketsProcessed = @ + Len(cycles[c].batch)]
     IN  IF cycles[c].awaited # 0
         THEN /\ autonomousState' = InstallLoop(st, timers, cycles[c].awaited).state
              /\ timers' = InstallLoop(st, timers, cycles[c].awaited).timers
         ELSE /\ autonomousState' = st
              /\ timers' = timers
  /\ UNCHANGED <<design, isRunning, intervalId, config, attestationHistory, cyclesStarted,
                 calldataBuilt, transactionsSubmitted>>
  /\ UNCHANGED <<predictions, lastPrediction>>
  /\ UNCHANGED <<codecVars, buildVars, filterVars, validateVars, historyVars, initVars>>

\* loopControl.ts 47-80: "stop auto mode".  When autonomous mode is not
\* enabled the handler only replies.
LoopControlStop ==
  /\ design = "actions"
  /\ autonomousState.enabled
  /\ autonomousState' = setAutonomousEnabledFalse(autonomousState, timers).state
  /\ timers' = setAutonomousEnabledFalse(autonomousState, timers).timers
  /\ UNCHANGED <<design, isRunning, intervalId, config, attestationHistory, cycles,
                 cyclesStarted, calldataBuilt, transactionsSubmitted>>
  /\ UNCHANGED <<predictions, lastPrediction>>
  /\ UNCHANGED <<codecVars, buildVars, filterVars, validateVars, historyVars, initVars>>

\* loopControl.ts 83-151: "set interval" with a number and a unit, which
\* make milliseconds.  A value out of range is rejected (106-119).  The timer
\* the command installs only logs.
LoopControlSetInterval(milliseconds) ==
  /\ design = "actions"
  /\ IF milliseconds < 30000 \/ milliseconds > 3600000
     THEN UNCHANGED vars
     ELSE /\ IF autonomousState.enabled
             THEN /\ timers' = SetIntervalTimer(ClearInterval(timers, autonomousState.loopId),
                                                "loopControl", milliseconds)
                  /\ autonomousState' =
                       [autonomousState EXCEPT
                          !.interval = milliseconds,
                          !.loopId = NewTimerId(ClearInterval(timers, autonomousState.loopId))]
             ELSE /\ timers' = timers
                  /\ autonomousState' = [autonomousState EXCEPT !.interval = milliseconds]
          /\ UNCHANGED <<design, isRunning, intervalId, config, attestationHistory, cycles,
                         cyclesStarted, calldataBuilt, transactionsSubmitted>>
          /\ UNCHANGED <<predictions, lastPrediction>>
          /\ UNCHANGED <<codecVars, buildVars, filterVars, validateVars, historyVars, initVars>>

\* loopControl.ts 153-190: "set confidence" with a number, read as
\* ParsedConfidence reads it.  A value out of range is rejected (171-178).
LoopControlSetConfidence(confidence) ==
  /\ design = "actions"
  /\ IF FLt(confidence, DoubleZero) \/ FGt(confidence, DoubleOne)
     THEN UNCHANGED vars
     ELSE /\ autonomousState' =
               [autonomousState EXCEPT !.minConfidence = setMinConfidence(confidence)]
          /\ UNCHANGED <<design, isRunning, intervalId, config, attestationHistory, timers,
                         cycles, cyclesStarted, calldataBuilt, transactionsSubmitted>>
          /\ UNCHANGED <<predictions, lastPrediction>>
          /\ UNCHANGED <<codecVars, buildVars, filterVars, validateVars, historyVars, initVars>>

\* "set batch size" without its range check
LoopControlSetBatch_Unvalidated(batchSize) ==
  /\ design = "actions"
  /\ autonomousState' = [autonomousState EXCEPT !.batchSize = batchSize]
  /\ UNCHANGED <<design, isRunning, intervalId, config, attestationHistory, timers, cycles,
                 cyclesStarted, calldataBuilt, transactionsSubmitted>>
  /\ UNCHANGED <<predictions, lastPrediction>>
  /\ UNCHANGED <<codecVars, buildVars, filterVars, validateVars, historyVars, initVars>>

\* loopControl.ts 193-223: "set batch size" with a number.  A value out of
\* range is rejected (206-213).
LoopControlSetBatch(batchSize) ==
  /\ design = "actions"
  /\ IF batchSize < 1 \/ batchSize > 50
     THEN UNCHANGED vars
     ELSE /\ autonomousState' = [autonomousState EXCEPT !.batchSize = batchSize]
          /\ UNCHANGED <<design, isRunning, intervalId, config, attestationHistory, timers,
                         cycles, cyclesStarted, calldataBuilt, transactionsSubmitted>>
          /\ UNCHANGED <<predictions, lastPrediction>>
          /\ UNCHANGED <<codecVars, buildVars, filterVars, validateVars, historyVars, initVars>>

\* startAutonomous without its isRunning check
startAutonomous_Unguarded ==
  /\ design = "service"
  /\ cyclesStarted < MaxCycles
  /\ isRunning' = TRUE
  /\ timers' = SetIntervalTimer(timers, "service", config.interval)
  /\ intervalId' = NewTimerId(timers)
  /\ cycles' = [cycles EXCEPT ![cyclesStarted + 1] = FetchingCycle]
  /\ cyclesStarted' = cyclesStarted + 1
  /\ UNCHANGED <<design, autonomousState, config, attestationHistory, calldataBuilt,
                 transactionsSubmitted>>
  /\ UNCHANGED <<predictions, lastPrediction>>
  /\ UNCHANGED <<codecVars, buildVars, filterVars, validateVars, historyVars, initVars>>

\* attestationService.ts 116-152.  When the service runs already the call
\* only warns and returns (117-120).
startAutonomous ==
  /\ design = "service"
  /\ IF isRunning
     THEN UNCHANGED vars
     ELSE /\ cyclesStarted < MaxCycles
          /\ isRunning' = TRUE
          /\ timers' = SetIntervalTimer(timers, "service", config.interval)
          /\ intervalId' = NewTimerId(timers)
          /\ cycles' = [cycles EXCEPT ![cyclesStarted + 1] = FetchingCycle]
          /\ cyclesStarted' = cyclesStarted + 1
          /\ UNCHANGED <<design, autonomousState, config, attestationHistory, calldataBuilt,
                         transactionsSubmitted>>
          /\ UNCHANGED <<predictions, lastPrediction>>
          /\ UNCHANGED <<codecVars, buildVars, filterVars, validateVars, historyVars, initVars>>

\* attestationService.ts 138-144: the callback of the service's timer
ServiceTick(t) ==
  /\ design = "service"
  /\ t \in timers /\ t.callback = "service"
  /\ cyclesStarted < MaxCycles
  /\ cycles' = [cycles EXCEPT ![cyclesStarted + 1] = FetchingCycle]
  /\ cyclesStarted' = cyclesStarted + 1
  /\ UNCHANGED <<design, autonomousState, isRunning, intervalId, config, attestationHistory,
                 timers, calldataBuilt, transactionsSubmitted>>
  /\ UNCHANGED <<predictions, lastPrediction>>
  /\ UNCHANGED <<codecVars, buildVars, filterVars, validateVars, historyVars, initVars>>

\* stop without its clearInterval
stop_LeavesTimer ==
  /\ design = "service"
  /\ isRunning
  /\ intervalId' = 0
  /\ isRunning' = FALSE
  /\ UNCHANGED <<design, autonomousState, config, attestationHistory, timers, cycles,
                 cyclesStarted, calldataBuilt, transactionsSubmitted>>
  /\ UNCHANGED <<predictions, lastPrediction>>
  /\ UNCHANGED <<codecVars, buildVars, filterVars, validateVars, historyVars, initVars>>

\* attestationService.ts 154-168.  When the service does not run the call
\* only warns.
stop ==
  /\ design = "service"
  /\ isRunning
  /\ timers' = IF intervalId # 0 THEN ClearInterval(timers, intervalId) ELSE timers
  /\ intervalId' = 0
  /\ isRunning' = FALSE
  /\ UNCHANGED <<design, autonomousState, config, attestationHistory, cycles, cyclesStarted,
                 calldataBuilt, transactionsSubmitted>>
  /\ UNCHANGED <<predictions, lastPrediction>>
  /\ UNCHANGED <<codecVars, buildVars, filterVars, validateVars, historyVars, initVars>>

\* attestationService.ts 173-221: the markets are fetched and filtered and
\* the batch is cut; a cycle that fetched nothing ends like one with no
\* candidate
CycleSelects(c, candidates) ==
  /\ design = "service"
  /\ cycles[c].phase = "fetching"
  /\ cycles' = [cycles EXCEPT ![c] = AttestingCycle(candidates, config.batchSize)]
  /\ UNCHANGED <<design, autonomousState, isRunning, intervalId, config, attestationHistory,
                 timers, cyclesStarted, calldataBuilt, transactionsSubmitted>>
  /\ UNCHANGED <<predictions, lastPrediction>>
  /\ UNCHANGED <<codecVars, buildVars, filterVars, validateVars, historyVars, initVars>>

\* attestationService.ts 749-879 for the market at index of cycle c:
\* generatePrediction resolved to prediction, and attestToMarket runs to its
\* end
AttestToMarket(c, prediction) ==
  /\ design = "service"
  /\ cycles[c].phase = "attesting"
  /\ predictions < MaxPredictions
  /\ predictions' = predictions + 1
  /\ lastPrediction' = [cycle |-> c, prediction |-> prediction]
  /\ cycles' = [cycles EXCEPT ![c] = AdvanceCycle(cycles[c])]
  /\ IF prediction.null THEN UNCHANGED <<calldataBuilt, transactionsSubmitted, attestationHistory>>
     ELSE IF BelowThreshold(prediction, config.minConfidence)
     THEN UNCHANGED <<calldataBuilt, transactionsSubmitted, attestationHistory>>
     ELSE /\ calldataBuilt' = calldataBuilt + 1
          /\ IF attestationDataOf(cycles[c].batch[cycles[c].index], prediction, checksWidth).null
             THEN UNCHANGED <<transactionsSubmitted, attestationHistory>>
             ELSE /\ transactionsSubmitted' = transactionsSubmitted + 1
                  /\ attestationHistory' =
                       HistorySet(attestationHistory, cycles[c].batch[cycles[c].index].id,
                                  prediction)
  /\ UNCHANGED <<design, autonomousState, isRunning, intervalId, config, timers,
                 cyclesStarted>>
  /\ UNCHANGED <<codecVars, buildVars, filterVars, validateVars, historyVars, initVars>>

LoopNext ==
  \/ \E minutes \in StartMinutes : AutoAttestHandler(minutes)
  \/ \E t \in timers : AutoAttestTick(t)
  \/ \E c \in 1..MaxCycles, prediction \in GeneratedPredictions : PredictionReturns(c, prediction)
  \/ \E c \in 1..MaxCycles : CycleFinishes(c)
  \/ LoopControlStop
  \/ \E milliseconds \in IntervalCommands : LoopControlSetInterval(milliseconds)
  \/ \E confidence \in ConfidenceCommands : LoopControlSetConfidence(confidence)
  \/ \E batchSize \in BatchCommands : LoopControlSetBatch(batchSize)
  \/ startAutonomous
  \/ \E t \in timers : ServiceTick(t)
  \/ stop
  \/ \E c \in 1..MaxCycles, candidates \in CandidateLists : CycleSelects(c, candidates)
  \/ \E c \in 1..MaxCycles, prediction \in ServicePredictions : AttestToMarket(c, prediction)

LoopInit ==
  /\ CodecIdle
  /\ BuildIdle /\ checksWidth = TRUE
  /\ FilterIdle /\ probabilityChangeThreshold = NumberOfInt(10)
  /\ LoopAtConstruction
  /\ \/ design = "actions" /\ config = DefaultConfig
     \/ design = "service" /\ config \in Configs
  /\ ValidateIdle
  /\ HistoryIdle
  /\ InitIdle

SpecLoop == LoopInit /\ [][LoopNext]_vars

\* ------------------------------------------------------------------------
\* Prediction validation, answer by answer
\* ------------------------------------------------------------------------

\* attestMarket.ts 131-171: the ATTEST_MARKET handler parses the answer,
\* validates it and builds the calldata
AttestMarketValidates(prediction) ==
  /\ vpc = "idle"
  /\ vpc' = "attestMarket"
  /\ parsed' = prediction
  /\ rejected' = attestMarketRejects(prediction)
  /\ attestationData' = attestationDataFor(prediction, checksWidth)
  /\ UNCHANGED <<codecVars, buildVars, filterVars, loopVars, historyVars, initVars>>

\* attestationService.ts 394-415: generatePrediction parses the answer and
\* validates it
GeneratePredictionValidates(prediction) ==
  /\ vpc = "idle"
  /\ vpc' = "service"
  /\ parsed' = prediction
  /\ rejected' = generatePredictionRejects(prediction)
  /\ UNCHANGED attestationData
  /\ UNCHANGED <<codecVars, buildVars, filterVars, loopVars, historyVars, initVars>>

ValidateNext ==
  \/ \E prediction \in ParsedPredictions : AttestMarketValidates(prediction)
  \/ \E prediction \in ParsedPredictions : GeneratePredictionValidates(prediction)

ValidateInit ==
  /\ CodecIdle
  /\ BuildIdle /\ checksWidth = TRUE
  /\ FilterIdle /\ probabilityChangeThreshold = NumberOfInt(10)
  /\ LoopIdle
  /\ ValidateIdle
  /\ HistoryIdle
  /\ InitIdle

SpecValidate == ValidateInit /\ [][ValidateNext]_vars

\* ------------------------------------------------------------------------
\* A cycle of the service with its filter: attestationCycle (170-241) calls
\* filterMarketsForAttestation and then attestToMarket for each market of the
\* batch.  The filter is handed a market whose address is no string ahead of
\* a regular one.
\* ------------------------------------------------------------------------

CycleNext ==
  \/ FilterStart(<<MarketC, MarketA>>, <<>>)
  \/ FilterPass(DayMs, NoPrediction)
  \/ FilterReturn
  \/ startAutonomous
  \/ \E t \in timers : ServiceTick(t)
  \/ stop
  \/ \E c \in 1..MaxCycles, candidates \in CandidateLists : CycleSelects(c, candidates)
  \/ \E c \in 1..MaxCycles, prediction \in ServicePredictions : AttestToMarket(c, prediction)

CycleInit ==
  /\ CodecIdle
  /\ BuildIdle /\ checksWidth = TRUE
  /\ FilterIdle /\ probabilityChangeThreshold = NumberOfInt(10)
  /\ LoopAtConstruction
  /\ design = "service" /\ config = DefaultConfig
  /\ ValidateIdle
  /\ HistoryIdle
  /\ InitIdle

SpecCycle == CycleInit /\ [][CycleNext]_vars

\* ------------------------------------------------------------------------
\* The history of the stateManager, call by call.  The n-th record added
\* carries n as its marketId.
\* ------------------------------------------------------------------------

MaxRecords == 103
Limits == {0, 1, 5, 100, 101}

\* the record processCycle hands to addAttestationRecord (part_002 173-178)
HistoryRecord(n) ==
  [marketId |-> n, prediction |-> DoubleTen, confidence |-> DoubleOne, success |-> TRUE]

\* stateManager.ts 114-131; the caller of an earlier getRecentAttestations
\* is done with what it got
RecordAdded ==
  /\ design = "actions"
  /\ autonomousState.attestationCount < MaxRecords
  /\ autonomousState' =
       addAttestationRecord(autonomousState, HistoryRecord(autonomousState.attestationCount + 1))
  /\ recent' = <<>> /\ recentLimit' = -1
  /\ UNCHANGED <<design, isRunning, intervalId, config, attestationHistory, timers, cycles,
                 cyclesStarted, calldataBuilt, transactionsSubmitted, predictions,
                 lastPrediction>>
  /\ UNCHANGED <<codecVars, buildVars, filterVars, validateVars, initVars>>

\* stateManager.ts 137-141
RecentRequested(n) ==
  /\ design = "actions"
  /\ recent' = getRecentAttestations(autonomousState, n)
  /\ recentLimit' = n
  /\ UNCHANGED <<codecVars, buildVars, filterVars, loopVars, validateVars, initVars>>

HistoryNext ==
  \/ RecordAdded
  \/ \E n \in Limits : RecentRequested(n)

HistoryInit ==
  /\ CodecIdle
  /\ BuildIdle /\ checksWidth = TRUE
  /\ FilterIdle /\ probabilityChangeThreshold = NumberOfInt(10)
  /\ LoopAtConstruction
  /\ design = "actions" /\ config = DefaultConfig
  /\ ValidateIdle
  /\ HistoryIdle
  /\ InitIdle

SpecHistory == HistoryInit /\ [][HistoryNext]_vars

\* ------------------------------------------------------------------------
\* The initialization of the service, await by await
\* ------------------------------------------------------------------------

maxRetries == 30

\* attestationService.ts 69-74: autonomousMode settings that enable the mode
EnabledConfig == [DefaultConfig EXCEPT !.enabled = TRUE]

\* attestationService.ts 94-108 and 82: one iteration of the loop of
\* waitForSapiencePlugin up to its await; when the service is there
\* initializeService goes on to startAutonomous (116-147)
PollSapience ==
  /\ polls' = polls + 1
  /\ IF sapienceAvailable
     THEN /\ ipc' = "started"
          /\ IF isRunning
             THEN UNCHANGED <<isRunning, timers, intervalId, cycles, cyclesStarted>>
             ELSE /\ isRunning' = TRUE
                  /\ timers' = SetIntervalTimer(timers, "service", config.interval)
                  /\ intervalId' = NewTimerId(timers)
                  /\ cycles' = [cycles EXCEPT ![cyclesStarted + 1] = FetchingCycle]
                  /\ cyclesStarted' = cyclesStarted + 1
     ELSE /\ ipc' = "waiting"
          /\ UNCHANGED <<isRunning, timers, intervalId, cycles, cyclesStarted>>
  /\ UNCHANGED <<design, autonomousState, config, attestationHistory, calldataBuilt,
                 transactionsSubmitted, predictions, lastPrediction, sapienceAvailable>>
  /\ UNCHANGED <<codecVars, buildVars, filterVars, validateVars, historyVars>>

\* attestationService.ts 64-87, from the constructor (line 52) to the first
\* await
initializeService ==
  /\ ipc = "constructed"
  /\ IF config.enabled
     THEN PollSapience
     ELSE /\ ipc' = "disabled"
          /\ UNCHANGED <<polls, sapienceAvailable>>
          /\ UNCHANGED <<codecVars, buildVars, filterVars, loopVars, validateVars, historyVars>>

\* the loop of waitForSapiencePlugin that gives up one poll later
WaitIsOver_OneMore ==
  /\ ipc = "waiting"
  /\ IF polls = maxRetries + 1
     THEN /\ ipc' = "failed"
          /\ UNCHANGED <<polls, sapienceAvailable>>
          /\ UNCHANGED <<codecVars, buildVars, filterVars, loopVars, validateVars, historyVars>>
     ELSE PollSapience

\* attestationService.ts 108, 93 and 111-113: the delay of retryDelay ms is
\* over; after maxRetries iterations waitForSapiencePlugin throws, and
\* initializeService logs the error (84-86)
WaitIsOver ==
  /\ ipc = "waiting"
  /\ IF polls = maxRetries
     THEN /\ ipc' = "failed"
          /\ UNCHANGED <<polls, sapienceAvailable>>
          /\ UNCHANGED <<codecVars, buildVars, filterVars, loopVars, validateVars, historyVars>>
     ELSE PollSapience

\* the Sapience plugin registers its service with the runtime
SapienceRegisters ==
  /\ ~sapienceAvailable
  /\ sapienceAvailable' = TRUE
  /\ UNCHANGED <<ipc, polls>>
  /\ UNCHANGED <<codecVars, buildVars, filterVars, loopVars, validateVars, historyVars>>

ServiceInitNext ==
  \/ initializeService
  \/ WaitIsOver
  \/ SapienceRegisters
  \/ \E t \in timers : ServiceTick(t)
  \/ stop
  \/ \E c \in 1..MaxCycles : CycleSelects(c, <<ServiceMarkets[1]>>)
  \/ \E c \in 1..MaxCycles : AttestToMarket(c, NoLoopPrediction)

ServiceInit ==
  /\ CodecIdle
  /\ BuildIdle /\ checksWidth = TRUE
  /\ FilterIdle /\ probabilityChangeThreshold = NumberOfInt(10)
  /\ LoopAtConstruction
  /\ design = "service" /\ config \in {DefaultConfig, EnabledConfig}
  /\ ValidateIdle
  /\ HistoryIdle
  /\ ipc = "constructed" /\ polls = 0 /\ sapienceAvailable \in BOOLEAN

SpecInit == ServiceInit /\ [][ServiceInitNext]_vars

\* the constructor's call of initializeService runs, every delay setTimeout
\* started comes to its end, and every call a cycle awaits settles
SpecInitFair ==
  /\ SpecInit
  /\ WF_vars(initializeService)
  /\ WF_vars(WaitIsOver)
  /\ WF_vars(\E c \in 1..MaxCycles : CycleSelects(c, <<ServiceMarkets[1]>>))
  /\ WF_vars(\E c \in 1..MaxCycles : AttestToMarket(c, NoLoopPrediction))

\* ------------------------------------------------------------------------
\* Properties of the codec (checked under SpecCodec)
\* ------------------------------------------------------------------------

TwoPow96 == Pow2(96)

\* |x| * 2^(-e) for a finite x whose exponent is at least e
AlignedMag(x, e) == IF IsZero(x) THEN <<>> ELSE ShiftLeft(x.m, x.e - e)

\* |X - Y| for the signed magnitudes X, Y
AbsDiffMag(sx, X, sy, Y) ==
  IF X # <<>> /\ Y # <<>> /\ sx # sy THEN BigAdd(X, Y)
  ELSE IF BigLe(Y, X) THEN BigSub(X, Y) ELSE BigSub(Y, X)

AbsDiffCmpAt(x, y, t, e) ==
  BigCmp(AbsDiffMag(x.s, AlignedMag(x, e), y.s, AlignedMag(y, e)), AlignedMag(t, e))

\* -1, 0, 1 as |x - y| < t, = t, > t, in exact arithmetic, for finite x, y, t
AbsDiffCmp(x, y, t) == AbsDiffCmpAt(x, y, t, Min2(x.e, Min2(y.e, t.e)))

\* 0 <= p <= 100
InDomain(p) == FGe(p, DoubleZero) /\ FGe(Hundred, p)

Half == NumberOfDecimal(FALSE, <<5>>, 1)
Thousandth == NumberOfDecimal(FALSE, <<1>>, 3)

\* C1: encoding probability 0 yields the encoded price 0 exactly and encoding
\* probability 100 yields exactly 2^96, with no rounding error at either end.
C1_EndpointsExact ==
  /\ cpc # "idle" /\ IsZero(probability) /\ probability.s = 0
       => encoded = Returned(SBig(FALSE, <<>>))
  /\ cpc # "idle" /\ probability = Hundred
       => encoded = Returned(SBig(FALSE, TwoPow96))
  /\ cpc = "pair" /\ probability2 = Hundred
       => encoded2 = Returned(SBig(FALSE, TwoPow96))

\* both endpoints have been encoded, 0 first and 100 second
C1_Witness ==
  /\ cpc = "pair"
  /\ literal = Lit(FALSE, <<0>>, 0) /\ encoded = Returned(SBig(FALSE, <<>>))
  /\ literal2 = Lit(FALSE, <<1, 0, 0>>, 0) /\ encoded2 = Returned(SBig(FALSE, TwoPow96))

\* C2: for every p in {0, 0.1, 1, 25, 49.9, 50, 50.1, 68, 99.9, 100}, decoding
\* the encoded price of p returns a value within 0.5 percentage points of p.
C2_RoundTripWithinHalf ==
  cpc = "decoded" /\ literal \in RoundTripLits
    => /\ ~decoded.null
       /\ decoded.v.k = "fin"
       /\ AbsDiffCmp(decoded.v, probability, Half) <= 0

\* a probability of the list came back, close to but not exactly as it went in
C2_Witness ==
  /\ cpc = "decoded"
  /\ literal = Lit(FALSE, <<4, 9, 9>>, 1)
  /\ ~decoded.null
  /\ decoded.v # probability
  /\ AbsDiffCmp(decoded.v, probability, Half) < 0

\* C13: for every encoded value that decodeProbability accepts, the
\* probability it returns lies in [0, 100].
C13_DecodedWithinDomain ==
  cpc \in {"decoded", "stored"} /\ ~decoded.null
    => decoded.v.k = "fin" /\ InDomain(decoded.v)

\* 2^160 decodes to a price far above 1 and comes back as 100
C13_Witness ==
  /\ cpc = "stored"
  /\ predictionValue = IntString(FALSE, TwoPow160)
  /\ decoded = Some(Hundred)

\* C5: decoding an encoded price that is negative or is >= 2^160 fails instead
\* of returning a probability.
C5_DecodeRejectsOutOfRange ==
  cpc = "stored" /\ predictionValue.kind = "int"
    /\ (predictionValue.neg \/ BitLength(predictionValue.mag) > 160)
    => decoded.null

\* C7 as stated: for p1 < p2 in [0, 100], encode(p1) <= encode(p2), and the two
\* are equal only at the domain boundary.
C7_EqualOnlyAtBoundary ==
  cpc = "pair" /\ InDomain(probability) /\ InDomain(probability2)
    /\ FLt(probability, probability2)
    => /\ ~encoded.threw /\ ~encoded2.threw
       /\ BigLe(encoded.v.mag, encoded2.v.mag)
       /\ encoded.v.mag = encoded2.v.mag => IsZero(probability) \/ probability2 = Hundred

\* C7 as amended: for p1 < p2 in [0, 100], encode(p1) <= encode(p2), and
\* encode(p1) < encode(p2) when p2 - p1 is at least 0.001.
C7_Monotonic ==
  cpc = "pair" /\ InDomain(probability) /\ InDomain(probability2)
    /\ FLt(probability, probability2)
    => /\ ~encoded.threw /\ ~encoded2.threw
       /\ ~encoded.v.neg /\ ~encoded2.v.neg
       /\ BigLe(encoded.v.mag, encoded2.v.mag)
       /\ AbsDiffCmp(probability, probability2, Thousandth) >= 0
            => BigLt(encoded.v.mag, encoded2.v.mag)

\* 50 and the next double above it were both encoded, to the same price
C7_Witness ==
  /\ cpc = "pair"
  /\ literal = Lit(FALSE, <<5, 0>>, 0) /\ literal2 = JustAboveFifty
  /\ FLt(probability, probability2)
  /\ ~encoded.threw /\ encoded = encoded2

\* ------------------------------------------------------------------------
\* Properties of buildAttestationCalldata (checked under SpecBuild)
\* ------------------------------------------------------------------------

\* the comment field of the encoded data inside the calldata returned
EncodedComment == calldata.v.data.args[1].data.data[5].value

\* C4: encoding a probability outside [0, 100] or not finite (-1, 101, NaN)
\* fails: no encoded price and no calldata is produced for it.
C4_OutOfDomainYieldsNoCalldata ==
  bpc = "built" /\ definition = "later" /\ ~InDomain(callPrediction.probability)
    => calldata.null

\* C8: a comment longer than 180 characters is encoded as its first 177
\* characters followed by '...', a comment of 180 characters or fewer is
\* encoded unchanged, and so no encoded comment exceeds 180 characters.
C8_CommentAtMost180 ==
  bpc = "built" /\ ~calldata.null
    => /\ EncodedComment =
            IF Len(callPrediction.reasoning) > 180
            THEN SubSeq(callPrediction.reasoning, 1, 177) \o <<46, 46, 46>>
            ELSE callPrediction.reasoning
       /\ Len(EncodedComment) <= 180

\* C9: building calldata for a chain id that is not in the chain registry
\* (999999) returns null: the call does not throw and returns no partial
\* calldata.
C9_UnregisteredChainYieldsNull ==
  bpc = "built" /\ callChainId \notin {1, 11155111, 10, 8453, 42161}
    => calldata = NoCalldata

\* chain 999999 was asked for with arguments that encode on a listed chain
C9_Witness ==
  /\ bpc = "built" /\ definition = "later"
  /\ callChainId = 999999
  /\ callMarket.address.wellFormed /\ callMarket.marketId = NumberOfInt(147)
  /\ callPrediction.probability = NumberOfInt(50)
  /\ Len(callPrediction.reasoning) = 100
  /\ calldata = NoCalldata

\* the fields of the encoded data inside the calldata returned
EncodedFields == calldata.v.data.args[1].data.data

\* C11: the encoded payload carries the market reference it was built for:
\* its marketAddress, marketId and questionId fields equal the address, market
\* id and question id of the market passed, in the field order (address,
\* marketId, questionId, prediction, comment).
C11_PayloadCarriesMarketReference ==
  bpc = "built" /\ ~calldata.null
    => /\ [i \in 1..5 |-> EncodedFields[i].name]
            = <<"marketAddress", "marketId", "questionId", "prediction", "comment">>
       /\ EncodedFields[1].value = callMarket.address.text
       /\ EncodedFields[2].value = BigIntOfNumber(callMarket.marketId).mag
       /\ EncodedFields[3].value = callMarket.questionId

\* C12: for every registered chain id, a successful build returns calldata
\* whose target is the registry entry of that chain id, whose chainId is the
\* requested one and whose value is 0; for chain id 8453 the target is the
\* registered Base contract.
C12_TargetIsRegistryEntry ==
  bpc = "built" /\ ~calldata.null
    => /\ callChainId \in {1, 11155111, 10, 8453, 42161}
       /\ calldata.v.to = EAS_CONTRACTS[callChainId]
       /\ calldata.v.chainId = callChainId
       /\ calldata.v.value = "0"
       /\ callChainId = 8453 => calldata.v.to = "0x4200000000000000000000000000000000000021"

\* a build for Base succeeded
C12_Witness ==
  /\ bpc = "built" /\ definition = "later"
  /\ callChainId = 8453
  /\ callPrediction.probability = NumberOfInt(50)
  /\ ~calldata.null
  /\ calldata.v.to = "0x4200000000000000000000000000000000000021"
  /\ calldata.v.chainId = 8453

\* the market's marketId is a negative number
NegativeMarketId ==
  callMarket.marketId.k = "fin" /\ callMarket.marketId.s = 1 /\ ~IsZero(callMarket.marketId)

\* the encoded price computed for the call is wider than 160 bits
PriceWiderThan160 ==
  /\ ~sqrtPriceX96(callPrediction.probability).threw
  /\ BitLength(sqrtPriceX96(callPrediction.probability).v.mag) > 160

\* C10: payload assembly fails (no calldata is returned) whenever the market's
\* marketId is negative or the computed encoded price does not fit in 160 bits.
C10_AssemblyRejectsUnencodable ==
  bpc = "built" /\ definition = "later" /\ (NegativeMarketId \/ PriceWiderThan160)
    => calldata.null

\* ------------------------------------------------------------------------
\* Properties of filterMarketsForAttestation (checked under SpecFilter)
\* ------------------------------------------------------------------------

\* the market is among the candidates returned
IsCandidate(market) == \E i \in 1..Len(candidateMarkets) : candidateMarkets[i].market = market

\* the stored prediction of the attestation found for the market of pass j
StoredOf(j) ==
  allMyAttestations[FindMatching(allMyAttestations, marketAddressOf(markets[j]),
                                 marketIdOf(markets[j]))].prediction

\* pass j reached the comparison: a prediction was generated and the
\* attestation found holds a non-empty prediction string
ReachedComparison(j) ==
  /\ passes[j].called
  /\ ~passes[j].currentPrediction.null
  /\ StoredOf(j).kind \in {"int", "bad"}

\* the stored value is an integer of the 160-bit range
Decodable(v) == v.kind = "int" /\ ~v.neg /\ BitLength(v.mag) <= 160

\* C3: when the stored previous encoded price cannot be decoded (malformed or
\* out of range), the decision does not silently skip the market as if the
\* probability had not changed enough.
C3_UndecodableNotSkipped ==
  \A j \in 1..Len(passes) :
    ReachedComparison(j) /\ ~Decodable(StoredOf(j)) => IsCandidate(markets[j])

\* C6: the decision for a market with a decodable previous encoded price is
\* true if and only if the absolute difference between the decoded previous
\* probability and the new probability is >= the configured threshold.
C6_DecisionIffChangeAtLeastThreshold ==
  \A j \in 1..Len(passes) :
    ReachedComparison(j) /\ Decodable(StoredOf(j))
      => (IsCandidate(markets[j])
            <=> AbsDiffCmp(decodeProbability(StoredOf(j)).v,
                           passes[j].currentPrediction.probability,
                           probabilityChangeThreshold) >= 0)

\* previous 50, new 65, threshold 10: the market is a candidate
C6_Witness ==
  /\ fpc = "done"
  /\ probabilityChangeThreshold = NumberOfInt(10)
  /\ markets = <<MarketA>>
  /\ Len(passes) = 1 /\ ReachedComparison(1)
  /\ StoredOf(1) = IntString(FALSE, EncodedFifty)
  /\ passes[1].currentPrediction.probability = NumberOfInt(65)
  /\ IsCandidate(MarketA)


\* the attestations of the wallet that match the market of pass j
OwnAttestations(j) ==
  { i \in 1..Len(allMyAttestations) :
      Matches(allMyAttestations[i], marketAddressOf(markets[j]), marketIdOf(markets[j])) }

\* the most recent of them
LastOwn(j) ==
  CHOOSE i \in OwnAttestations(j) :
    \A k \in OwnAttestations(j) :
      allMyAttestations[i].createdAt >= allMyAttestations[k].createdAt

\* the hours between the most recent own attestation and pass j
HoursSinceLastOwn(j) ==
  hoursSinceLastAttestation(passes[j].now, allMyAttestations[LastOwn(j)].createdAt)

\* the re-attestation decision of pass j on the probability change is true
DecisionTrue(j) ==
  /\ ~passes[j].currentPrediction.null
  /\ ~decodeProbability(allMyAttestations[LastOwn(j)].prediction).null
  /\ AbsDiffCmp(decodeProbability(allMyAttestations[LastOwn(j)].prediction).v,
                passes[j].currentPrediction.probability,
                probabilityChangeThreshold) >= 0

SameAddress(att, market) ==
  ToLowerCaseOpt(att.marketAddress) = ToLowerCaseOpt(marketAddressOf(market))
SameMarketId(att, market) == ToStringOpt(att.marketId) = ToStringOpt(marketIdOf(market))
AttestedBefore(market) ==
  \E i \in 1..Len(allMyAttestations) :
    SameAddress(allMyAttestations[i], market) /\ SameMarketId(allMyAttestations[i], market)

\* the reasons the candidates of the market carry
ReasonsOf(market) ==
  { candidateMarkets[i]._attestationReason :
      i \in { k \in 1..Len(candidateMarkets) : candidateMarkets[k].market = market } }

\* C26: a market is treated as already attested only when one of the wallet's
\* attestations matches both its market address (case-insensitively) and its
\* marketId; every active market with no such attestation is selected as a
\* candidate ('never attested').
C26_AttestedOnlyWhenBothMatch ==
  \A j \in 1..Len(passes) :
    /\ ~AttestedBefore(markets[j])
         => /\ IsCandidate(markets[j])
            /\ ReasonsOf(markets[j]) \subseteq {"Never attested",
                                                "Could not verify previous attestation"}
    /\ AttestedBefore(markets[j]) => "Never attested" \notin ReasonsOf(markets[j])

\* market A is checked less than 24 hours after two attestations that each
\* match it in one of the two fields only, and it is selected as never
\* attested
C26_Witness ==
  /\ fpc = "done"
  /\ markets = <<MarketA>>
  /\ allMyAttestations = <<SameAddressOtherId, SameIdOtherAddress>>
  /\ Len(passes) = 1 /\ passes[1].now = DayMs - 1
  /\ ReasonsOf(MarketA) = {"Never attested"}

\* ------------------------------------------------------------------------
\* Properties of the autonomous loop (checked under SpecLoop)
\* ------------------------------------------------------------------------

\* the cycles that have begun and not ended
CyclesInProgress == {c \in 1..MaxCycles : cycles[c].phase # "none"}

\* C15: no two attestation cycles run at the same time: while a cycle, the
\* initial one included, is in progress no other cycle is.
C15_NoTwoCyclesAtOnce == Cardinality(CyclesInProgress) <= 1

\* C16: the loop never records a second attestation for a market that
\* already has a record in its attestation history.
C16_OneRecordForEachMarket ==
  \A i, j \in 1..Len(autonomousState.attestationHistory) :
    autonomousState.attestationHistory[i].marketId
      = autonomousState.attestationHistory[j].marketId => i = j

\* autonomous mode is off: the stop command has completed, or no start
\* command was given yet
Stopped == IF design = "service" THEN ~isRunning ELSE ~autonomousState.enabled

\* C17: after a stop command completes (AttestationService.stop or the
\* LOOP_CONTROL stop command) no new attestation cycle begins until autonomous
\* mode is started again: no step between two stopped states begins a cycle.
C17_NoCycleBeginsWhileStopped ==
  [][Stopped /\ Stopped' => cyclesStarted' = cyclesStarted]_vars

\* autonomous mode was started and stopped, and a timer that calls
\* processCycle is still pending
C17_Witness ==
  /\ design = "actions"
  /\ cyclesStarted >= 1
  /\ ~autonomousState.enabled
  /\ \E t \in timers : t.callback = "autoAttest"

\* the loop runs: autonomous mode is enabled and the timer stateManager holds
\* as its loop calls processCycle
LoopRuns(st, ts) ==
  /\ st.enabled
  /\ \E t \in ts : t.id = st.loopId /\ t.callback = "autoAttest"

\* C18: after an accepted 'set interval' command issued while autonomous mode
\* is running, attestation cycles keep being run, at the new interval: the
\* loop's timer still calls processCycle, and its period is the new interval.
C18_CyclesKeepRunningAtNewInterval ==
  [][ /\ design = "actions"
      /\ LoopRuns(autonomousState, timers)
      /\ autonomousState'.interval # autonomousState.interval
      => /\ LoopRuns(autonomousState', timers')
         /\ \A t \in timers' :
              t.id = autonomousState'.loopId => t.interval = autonomousState'.interval
    ]_vars

\* the threshold cycle c compares confidences with: config.minConfidence in
\* the service, the minConfidence processCycle read when it selected its batch
MinConfidenceOf(c) ==
  IF design = "service" THEN config.minConfidence ELSE cycles[c].minConfidence

\* C19: for a prediction with confidence below minConfidence no calldata is
\* built, no transaction is submitted and no attestation record is added.
C19_BelowThresholdNothingAttested ==
  [][ /\ predictions' = predictions + 1
      /\ ~lastPrediction'.prediction.null
      /\ FLt(lastPrediction'.prediction.confidence, MinConfidenceOf(lastPrediction'.cycle))
      => /\ calldataBuilt' = calldataBuilt
         /\ transactionsSubmitted' = transactionsSubmitted
         /\ attestationHistory' = attestationHistory
         /\ autonomousState'.attestationHistory = autonomousState.attestationHistory
    ]_vars

\* the threshold was raised to 0.8, and the first prediction of the loop, of
\* confidence 0.7 once normalised, was skipped
C19_Witness ==
  /\ design = "actions"
  /\ predictions = 1
  /\ cycles[lastPrediction.cycle].phase = "running"
  /\ cycles[lastPrediction.cycle].minConfidence = NumberOfDecimal(FALSE, <<8>>, 1)
  /\ lastPrediction.prediction.confidence = NumberOfDecimal(FALSE, <<7>>, 1)
  /\ calldataBuilt = 0
  /\ autonomousState.attestationHistory = <<>>

\* cycle c has selected its batch and not ended
HasBatch(cycle) == cycle.phase \in {"running", "attesting"}

\* the batch size setting: config.batchSize in the service, stateManager's
\* batchSize in the other loop
BatchSizeInEffect ==
  IF design = "service" THEN config.batchSize ELSE autonomousState.batchSize

\* C20: in every cycle at most batchSize markets are processed, batchSize
\* being the setting in effect when the cycle selects its batch: the batch a
\* cycle selects is no longer than the setting at that step, the batch never
\* changes afterwards, and the cycle processes no market beyond it.
C20_AtMostBatchSizeProcessed ==
  [][ \A c \in 1..MaxCycles :
        /\ ~HasBatch(cycles[c]) /\ HasBatch(cycles'[c])
             => /\ Len(cycles'[c].batch) <= BatchSizeInEffect
                /\ cycles'[c].index = 1
        /\ HasBatch(cycles[c]) /\ HasBatch(cycles'[c])
             => /\ cycles'[c].batch = cycles[c].batch
                /\ cycles'[c].index - 1 <= Len(cycles[c].batch)
    ]_vars

\* with batch size 1 and five unattested markets a cycle selected one
\* market, and has processed it
C20_Witness ==
  /\ design = "actions"
  /\ autonomousState.batchSize = 1
  /\ \E c \in 1..MaxCycles :
       /\ cycles[c].phase = "running"
       /\ Len(cycles[c].batch) = 1 /\ cycles[c].batch[1].marketId = 147
       /\ cycles[c].index = 2
  /\ predictions = 1

\* C23: in the stateManager-driven loop, after any interleaving of start,
\* stop and set interval commands, at most one interval timer is live, and it
\* is the one stored as loopId.
C23_OneTimerStoredAsLoopId ==
  design = "actions"
    => /\ Cardinality(timers) <= 1
       /\ \A t \in timers : t.id = autonomousState.loopId

\* C24: in AttestationService at most one interval timer exists, a timer
\* exists exactly when isRunning is true, and a call of startAutonomous while
\* the service runs changes nothing.
C24_TimerExactlyWhenRunning ==
  /\ [](design = "service"
          => /\ Cardinality(timers) <= 1
             /\ (timers # {}) <=> isRunning
             /\ \A t \in timers : t.id = intervalId)
  /\ [][(isRunning /\ startAutonomous) => UNCHANGED vars]_vars

\* the service runs with its one timer and has begun two cycles, none of
\* them still fetching
C24_Witness ==
  /\ design = "service"
  /\ isRunning /\ cyclesStarted = 2
  /\ Cardinality(timers) = 1
  /\ \A c \in 1..MaxCycles : cycles[c].phase # "fetching"

\* the configuration of the stateManager loop
LoopConfig ==
  [interval |-> autonomousState.interval, batchSize |-> autonomousState.batchSize,
   minConfidence |-> autonomousState.minConfidence]

\* C27: after any sequence of AUTO_ATTEST and LOOP_CONTROL commands the
\* configuration of the loop stays within bounds: interval in [30000, 3600000]
\* ms, batchSize in [1, 50], minConfidence in [0, 1]; a command rejected by
\* validation leaves the configuration unchanged.
C27_ConfigurationWithinBounds ==
  /\ [](design = "actions"
          => /\ LoopConfig.interval >= 30000 /\ LoopConfig.interval <= 3600000
             /\ LoopConfig.batchSize >= 1 /\ LoopConfig.batchSize <= 50
             /\ FGe(LoopConfig.minConfidence, DoubleZero)
             /\ FGe(DoubleOne, LoopConfig.minConfidence))
  /\ [][/\ \A ms \in IntervalCommands :
            (ms < 30000 \/ ms > 3600000) /\ LoopControlSetInterval(ms) => UNCHANGED LoopConfig
        /\ \A n \in BatchCommands :
            (n < 1 \/ n > 50) /\ LoopControlSetBatch(n) => UNCHANGED LoopConfig
        /\ \A x \in ConfidenceCommands :
            (FLt(x, DoubleZero) \/ FGt(x, DoubleOne)) /\ LoopControlSetConfidence(x)
              => UNCHANGED LoopConfig
        /\ \A minutes \in StartMinutes :
            (minutes <= 0 \/ minutes > 60) /\ AutoAttestHandler(minutes)
              => UNCHANGED LoopConfig]_vars

\* the three accepted commands changed the configuration
C27_Witness ==
  /\ design = "actions"
  /\ LoopConfig.interval = 600000
  /\ LoopConfig.batchSize = 1
  /\ LoopConfig.minConfidence = NumberOfDecimal(FALSE, <<8>>, 1)

\* C28: in every reachable state of the state manager attestationCount <=
\* marketsProcessed, so the success rate attestationCount / marketsProcessed
\* of the dashboard is defined and at most 100% whenever attestationCount > 0.
C28_CountAtMostProcessed ==
  design = "actions" => autonomousState.attestationCount <= autonomousState.marketsProcessed

\* ------------------------------------------------------------------------
\* Properties of a cycle with its filter (checked under SpecCycle)
\* ------------------------------------------------------------------------

\* the check of the market's previous attestation throws
CheckThrows(market) == ThrowsOnStringMethod(marketAddressOf(market))

\* attestToMarket returned for the market at index of cycle c
MarketProcessed(c) == cycles[c].phase = "attesting" /\ cycles'[c] # cycles[c]

\* C25: if checking a market's previous attestation throws, the market is
\* still added to the candidates and the remaining markets are still checked;
\* a failure while attesting one market of the batch does not prevent the
\* later markets of the batch from being processed.
C25_FailuresDoNotStopTheRest ==
  /\ [](\A j \in 1..Len(passes) : CheckThrows(markets[j]) => IsCandidate(markets[j]))
  /\ [][fpc = "loop" /\ fpc' = "done" => Len(passes) = Len(markets)]_vars
  /\ [][\A c \in 1..MaxCycles :
          MarketProcessed(c) /\ cycles[c].index < Len(cycles[c].batch)
            => /\ cycles'[c].phase = "attesting"
               /\ cycles'[c].batch = cycles[c].batch
               /\ cycles'[c].index = cycles[c].index + 1]_vars

\* the check of market C threw, market C and market A after it are
\* candidates, and a cycle is at the second market of its batch after no
\* prediction was generated for the first
C25_Witness ==
  /\ fpc = "done"
  /\ IsCandidate(MarketC) /\ IsCandidate(MarketA)
  /\ \E c \in 1..MaxCycles :
       /\ cycles[c].phase = "attesting" /\ cycles[c].index = 2
       /\ lastPrediction = [cycle |-> c, prediction |-> NoLoopPrediction]
       /\ attestationHistory = <<>>

\* ------------------------------------------------------------------------
\* Properties of the history (checked under SpecHistory)
\* ------------------------------------------------------------------------

\* how many records were added: each of them counted as a success
RecordsAdded == autonomousState.attestationCount

\* C29: after any sequence of addAttestationRecord calls the history holds at
\* most 100 records, the most recently added ones in insertion order, and
\* getRecentAttestations(limit) returns at most limit of them, newest first,
\* for every limit >= 0.
C29_LastHundredNewestFirst ==
  /\ Len(autonomousState.attestationHistory) = Min2(RecordsAdded, 100)
  /\ \A i \in 1..Len(autonomousState.attestationHistory) :
       autonomousState.attestationHistory[i].marketId
         = RecordsAdded - Len(autonomousState.attestationHistory) + i
  /\ recentLimit >= 0
       => /\ Len(recent) <= recentLimit
          /\ \A i \in 1..Len(recent) :
               recent[i] = autonomousState.attestationHistory[
                             Len(autonomousState.attestationHistory) + 1 - i]

\* ------------------------------------------------------------------------
\* Properties of the initialization (checked under SpecInitFair)
\* ------------------------------------------------------------------------

\* initializeService has returned: the mode is not enabled, the wait for the
\* plugin failed, or the first cycle, which startAutonomous awaits (147), is
\* over
InitializationOver ==
  \/ ipc \in {"disabled", "failed"}
  \/ ipc = "started" /\ cycles[1].phase = "none"

WellFormed(prediction) ==
  /\ prediction.probability.t = "number" /\ InDomain(prediction.probability.x)
  /\ prediction.reasoning.t = "string" /\ prediction.reasoning.s # <<>>
  /\ prediction.confidence.t # "undefined"

\* C22: every prediction whose probability is in [0,100] (exactly 0
\* included), whose reasoning is non-empty and whose confidence is defined
\* passes prediction validation, in the ATTEST_MARKET path, where calldata is
\* then built for it, and in the service path.
C22_WellFormedPassesValidation ==
  vpc # "idle" /\ WellFormed(parsed)
    => /\ ~rejected
       /\ vpc = "attestMarket" => ~attestationData.null

====
